---- MODULE Spec2Model ----
(***************************************************************************)
(* Verification model of dr-manhattan-rust: the streaming market-data      *)
(* layer (Polymarket and Limitless websocket clients), the order-book      *)
(* handlers, the Limitless REST order book with its inverted "No" book,    *)
(* and the OrderTracker.                                                    *)
(*                                                                         *)
(* Prices and sizes are f64 in the source; the model keeps them as         *)
(* integers counted in ticks of 0.001 (so 1.0 is One = 1000 ticks).        *)
(***************************************************************************)
EXTENDS Integers, Sequences, FiniteSets, TLC

\* ------------------------------------------------------------------ bounds
\* how many times connect() may open a transport (each success spawns a task)
MaxTasks == 2
\* how many of those tasks may be alive at the same time when they reconnect
\* (without auto_reconnect a task ends with its session, and all may be alive)
MaxLive == 1
\* market / asset identifiers are 1..MaxIds
MaxIds == 2
\* the observation counter t_fails saturates here (above MAX_RECONNECT_ATTEMPTS)
MaxFails == 12
\* socket events that may wait for their handler at the same time
MaxEvents == 2
\* levels per side in one inbound message
MaxBidLevels == 2
MaxAskLevels == 1
\* entries of price_changes in one price_change message
MaxChanges == 1
\* entries of the "orders" array of a REST order-book response
MaxOrders == 1
\* callbacks that may be registered with on_fill
MaxCallbacks == 2
\* order sizes are 2..MaxSize, fill sizes 1..MaxFill
MaxSize == 3
MaxFill == 2
\* tracker calls nested in one another (a call made by a callback counts one)
MaxDepth == 2
\* the clock stops at MaxTime ticks; a limiter's wait() is called MaxWaits times
MaxTime == 12
MaxWaits == 3
\* retry_with_backoff is called with max_attempts in 0..MaxAttempts
MaxAttempts == 4
\* the millisecond clock stops at MaxClock; a client builds MaxBuilt orders
MaxClock == 3
MaxBuilt == 3
\* digest computations recorded
MaxDigests == 2
\* heartbeat failures recorded
MaxPingFails == 1
\* pings counted per task
MaxPings == 2
\* consumer streams; books the reader broadcasts; values a broadcast channel
\* retains (100 in the source, line 470)
MaxReceivers == 2
MaxProduced == 3
BroadcastCapacity == 1
\* the connection is followed until the attempt counter passes MaxLosses
MaxLosses == 2
\* text frames a reader handles
MaxMessages == 2
\* tasks that share a RateLimiter
MaxCallers == 2

\* ------------------------------------------------------- program constants
RECONNECT_BASE_DELAY_MS == 3000
RECONNECT_MAX_DELAY_MS == 60000
MAX_RECONNECT_ATTEMPTS == 10

Ids == 1..MaxIds
Tasks == 1..MaxTasks
None == 0
NoTx == <<0, "none">>

WebSocketState == {"Disconnected", "Connecting", "Connected", "Reconnecting", "Closed"}

VARIABLES
    \* ---- PolymarketWebSocket (shared, lock-protected fields)
    state,              \* Arc<RwLock<WebSocketState>>
    subscriptions,      \* keys of the subscriptions map
    orderbook_senders,  \* keys of the broadcast-sender map
    write_tx,           \* NoTx, or <<task, session>>: the channel feeding that session's writer
    shutdown_tx,        \* None, or the task that holds the matching oneshot receiver
    reconnect_attempts, \* Arc<Mutex<u32>>
    auto_reconnect,     \* configuration flag, fixed at construction
    \* ---- the caller of connect()/disconnect()/subscribe()/unsubscribe() (&mut self)
    c_pc, c_arg,
    \* ---- the tasks spawned by connect()
    spawned,            \* number of tasks spawned so far
    t_pc,               \* position of each task
    t_attempt,          \* the task's local variable `attempt`
    \* ---- observation (history) variables
    closedCalled,       \* disconnect() was called and connect() has not been called since
    t_fails,            \* failed reconnect attempts of the task since it (re)entered the loop
    t_delay,            \* the task's local `delay` (ms) while it sleeps and connects, else None
    outbox,             \* ids for which a subscribe message was queued on the current channel
    \* ---- LimitlessWebSocket (SharedState behind one RwLock, and the client)
    l_state,            \* SharedState.ws_state
    l_slugs,            \* SharedState.subscribed_slugs
    l_addresses,        \* SharedState.subscribed_addresses
    l_senders,          \* keys of SharedState.orderbook_senders
    l_client,           \* whether self.client holds Some(client)
    l_pc, l_arg,        \* the caller of the LimitlessWebSocket methods (&mut self)
    \* ---- the socket.io transport under the Limitless client
    l_up,               \* the transport connection is established
    l_events,           \* "connect"/"disconnect" events whose handlers have not run yet
    l_venueSubs,        \* the subscription payload the venue last got on this connection
    \* ---- order books
    orderbooks,         \* PolymarketWebSocket.orderbooks: asset id -> cached book
    p_out,              \* books the latest Polymarket handler sent to a broadcast channel
    l_orderbooks,       \* LimitlessWebSocket SharedState.orderbooks
    l_out,              \* books the latest Limitless handler sent to a broadcast channel
    \* ---- Limitless (REST client)
    token_to_slug,      \* Limitless.token_to_slug
    no_tokens,          \* Limitless.no_tokens
    rest_result,        \* what the latest get_orderbook call returned: Nothing (Err) or Some(book)
    rest_canonical,     \* that call's locals after the first sort: bids, asks, is_no_token
    \* ---- OrderTracker
    tracked_orders,     \* OrderTracker.tracked_orders: id -> TrackedOrder
    callbacks,          \* OrderTracker.callbacks: how many are registered (callback i is the i-th)
    o_pc,               \* per calling thread: where it is inside a tracker operation
    o_op,               \* per thread: the operation it called last
    o_id,               \* per thread: the order_id argument of that call
    o_fill,             \* per thread: the fill_size argument of that call
    o_found,            \* per thread: the entry that call found: Nothing, or Some(TrackedOrder)
    o_event,            \* per thread: handle_trade's local (event, updated_order)
    o_calls,            \* per thread: the callback invocations that call made, in order
    \* ---- OrderTracker, one thread whose callbacks call back into the tracker
    re_stack,           \* the thread's tracker calls in progress, outermost first
    cb_readers,         \* read guards the thread holds on OrderTracker.callbacks
    \* ---- RateLimiter (times in ticks of 1 / TicksPerSecond s)
    rl_now,             \* the monotonic clock, Instant::now()
    rl_rate,            \* requests_per_second the limiter was built with
    last_request,       \* RateLimiter.last_request
    min_interval,       \* RateLimiter.min_interval
    rl_pc,              \* where the caller is inside wait()
    rl_wake_at,         \* the deadline of the sleep in progress
    rl_elapsed,         \* wait()'s local elapsed, of the latest call
    rl_sleep,           \* the wait_time the latest call slept for (0: it did not sleep)
    rl_done,            \* the times at which the wait() calls on this limiter returned
    \* ---- retry_with_backoff
    rb_pc,              \* where the call is: "idle", "call", "sleeping", "done", "panicked"
    rb_max_attempts,    \* the argument max_attempts
    rb_initial_delay,   \* the argument initial_delay
    rb_attempt,         \* the loop variable attempt
    rb_delay,           \* the local delay
    rb_log,             \* what the call did so far: invocations of f and sleeps, in order
    rb_result,          \* the returned Result, once the call returned
    \* ---- order builders (sizes and prices in millionths)
    am_builder,         \* the builder that ran last: "limitless", "polymarket", "predictfun"
    am_side,            \* its side argument
    am_size,            \* its size argument
    am_price,           \* its price argument
    am_scaled,          \* the scaled size, before any alignment
    am_shares,          \* the shares of the order
    am_price_int,       \* the scaled price
    am_maker,           \* makerAmount of the built order
    am_taker,           \* takerAmount of the built order
    \* ---- create_order
    co_venue,           \* the venue of the latest call
    co_entry,           \* its entry point: "create_order" or "build_signed_order"
    co_price,           \* its price argument
    co_size,            \* its size argument
    co_side,            \* its side argument
    co_result,          \* how it returned
    co_signed,          \* the signed order it built, if any
    co_posted,          \* whether it submitted an order to the venue
    \* ---- order salts
    sl_now,             \* the millisecond clock
    sl_salts,           \* per venue, the salts of the orders its client built, in order
    \* ---- order digests
    dg_now,             \* the clock
    dg_authenticated,   \* the client's session state
    dg_log,             \* the digest computations made: inputs, digest, time, session state
    \* ---- the heartbeat of the Polymarket connection
    hb_failed,          \* the tasks whose heartbeat ping could not be sent, in order
    hb_sent,            \* per task: the pings its sessions queued for the socket, saturating
    \* ---- fan-out of books to the consumers' streams (Polymarket)
    fo_chan,            \* per asset: Nothing, or Some(channel) of the sender in orderbook_senders
    fo_rx,              \* per stream: its receiver (state, asset, position, the channel kept after the sender went)
    fo_produced,        \* per asset: the books the reader passed to sender.send, in order
    fo_yielded,         \* per stream: what poll_next yielded to the consumer, in order
    fo_waited,          \* the latest broadcast had to wait for a consumer
    \* ---- the latest best-price message a reader handled
    bp_in,              \* venue, asset and the best bid / best ask the message carried
    \* ---- the reader of the Polymarket connection
    pm_log,             \* the text frames the reader handled, in order
    \* ---- the fills an OrderTracker was given
    ft_price,           \* per order id: Nothing, or Some(fill_price) of the latest handle_trade for it
    \* ---- the Limitless amounts in the widths of the code
    wa_pc,              \* the call of the builder: "none", "called" or "returned"
    wa_side,            \* its side argument
    wa_scaled,          \* (size * shares_scale as f64) as u64, in bytes
    wa_price_int,       \* its price_int
    wa_maker,           \* maker_amount, a u64 in bytes
    wa_taker,           \* taker_amount, a u64 in bytes
    wa_overflow,        \* an operation of the build exceeded its width
    \* ---- the tasks sharing a RateLimiter
    sh_pc,              \* per task: where it is in rate_limit(): idle, queued for the lock, wait, sleeping, stamp
    sh_wake_at,         \* per task: when its sleep ends
    sh_queue            \* the tasks waiting for the lock, in the order of their calls

wsVars == <<state, subscriptions, orderbook_senders, write_tx, shutdown_tx,
            reconnect_attempts, auto_reconnect, c_pc, c_arg, spawned, t_pc,
            t_attempt, closedCalled, t_fails, t_delay, outbox>>

lwsVars == <<l_state, l_slugs, l_addresses, l_senders, l_client, l_pc, l_arg,
             l_up, l_events, l_venueSubs>>

pbookVars == <<orderbooks, p_out>>
lbookVars == <<l_orderbooks, l_out>>

restVars == <<token_to_slug, no_tokens, rest_result, rest_canonical>>

trackerVars == <<tracked_orders, callbacks, o_pc, o_op, o_id, o_fill, o_found, o_event,
                 o_calls, re_stack, cb_readers>>

rateVars == <<rl_now, rl_rate, last_request, min_interval, rl_pc, rl_wake_at, rl_elapsed,
              rl_sleep, rl_done>>

retryVars == <<rb_pc, rb_max_attempts, rb_initial_delay, rb_attempt, rb_delay, rb_log,
               rb_result>>

amountVars == <<am_builder, am_side, am_size, am_price, am_scaled, am_shares, am_price_int,
                am_maker, am_taker>>

createVars == <<co_venue, co_entry, co_price, co_size, co_side, co_result, co_signed, co_posted>>

saltVars == <<sl_now, sl_salts>>

digestVars == <<dg_now, dg_authenticated, dg_log>>

hbVars == <<hb_failed, hb_sent>>

fanVars == <<fo_chan, fo_rx, fo_produced, fo_yielded, fo_waited>>

bpVars == <<bp_in>>

msgVars == <<pm_log>>

fillVars == <<ft_price>>

wideVars == <<wa_pc, wa_side, wa_scaled, wa_price_int, wa_maker, wa_taker, wa_overflow>>

sharedVars == <<sh_pc, sh_wake_at, sh_queue>>

laterVars == <<rateVars, retryVars, amountVars, createVars, saltVars, digestVars, hbVars, fanVars, bpVars, msgVars, fillVars, wideVars, sharedVars>>

vars == <<wsVars, lwsVars, pbookVars, lbookVars, restVars, trackerVars, rateVars, retryVars,
          amountVars, createVars, saltVars, digestVars, hbVars, fanVars, bpVars, msgVars, fillVars, wideVars, sharedVars>>

\* what the steps of one component leave alone
notWS == <<lwsVars, pbookVars, lbookVars, restVars, trackerVars, rateVars, retryVars,
    amountVars, createVars, saltVars, digestVars, hbVars, fanVars, bpVars, msgVars, fillVars, wideVars, sharedVars>>
notLWS == <<wsVars, pbookVars, lbookVars, restVars, trackerVars, rateVars, retryVars,
    amountVars, createVars, saltVars, digestVars, hbVars, fanVars, bpVars, msgVars, fillVars, wideVars, sharedVars>>
notPBook == <<wsVars, lwsVars, lbookVars, restVars, trackerVars, rateVars, retryVars,
    amountVars, createVars, saltVars, digestVars, hbVars, fanVars, bpVars, msgVars, fillVars, wideVars, sharedVars>>
notLBook == <<wsVars, lwsVars, pbookVars, restVars, trackerVars, rateVars, retryVars,
    amountVars, createVars, saltVars, digestVars, hbVars, fanVars, bpVars, msgVars, fillVars, wideVars, sharedVars>>
notRest == <<wsVars, lwsVars, pbookVars, lbookVars, trackerVars, rateVars, retryVars,
    amountVars, createVars, saltVars, digestVars, hbVars, fanVars, bpVars, msgVars, fillVars, wideVars, sharedVars>>
notTracker == <<wsVars, lwsVars, pbookVars, lbookVars, restVars, rateVars, retryVars,
    amountVars, createVars, saltVars, digestVars, hbVars, fanVars, bpVars, msgVars, fillVars, wideVars, sharedVars>>
notRate == <<wsVars, lwsVars, pbookVars, lbookVars, restVars, trackerVars, retryVars,
    amountVars, createVars, saltVars, digestVars, hbVars, fanVars, bpVars, msgVars, fillVars, wideVars, sharedVars>>
notRetry == <<wsVars, lwsVars, pbookVars, lbookVars, restVars, trackerVars, rateVars,
    amountVars, createVars, saltVars, digestVars, hbVars, fanVars, bpVars, msgVars, fillVars, wideVars, sharedVars>>
notAmount == <<wsVars, lwsVars, pbookVars, lbookVars, restVars, trackerVars, rateVars,
    retryVars, createVars, saltVars, digestVars, hbVars, fanVars, bpVars, msgVars, fillVars, wideVars, sharedVars>>
notCreate == <<wsVars, lwsVars, pbookVars, lbookVars, restVars, trackerVars, rateVars,
    retryVars, amountVars, saltVars, digestVars, hbVars, fanVars, bpVars, msgVars, fillVars, wideVars, sharedVars>>
notSalt == <<wsVars, lwsVars, pbookVars, lbookVars, restVars, trackerVars, rateVars,
    retryVars, amountVars, createVars, digestVars, hbVars, fanVars, bpVars, msgVars, fillVars, wideVars, sharedVars>>
notDigest == <<wsVars, lwsVars, pbookVars, lbookVars, restVars, trackerVars, rateVars,
    retryVars, amountVars, createVars, saltVars, hbVars, fanVars, bpVars, msgVars, fillVars, wideVars, sharedVars>>
\* everything but the Polymarket connection and its heartbeat
notPing == <<lwsVars, pbookVars, lbookVars, restVars, trackerVars, rateVars, retryVars,
    amountVars, createVars, saltVars, digestVars, fanVars, bpVars, msgVars, fillVars, wideVars, sharedVars>>
notHB == <<wsVars, lwsVars, pbookVars, lbookVars, restVars, trackerVars, rateVars,
    retryVars, amountVars, createVars, saltVars, digestVars, fanVars, bpVars, msgVars, fillVars, wideVars, sharedVars>>
notFan == <<wsVars, lwsVars, pbookVars, lbookVars, restVars, trackerVars, rateVars,
    retryVars, amountVars, createVars, saltVars, digestVars, hbVars, bpVars, msgVars, fillVars, wideVars, sharedVars>>
notBP == <<wsVars, lwsVars, pbookVars, lbookVars, restVars, trackerVars, rateVars,
    retryVars, amountVars, createVars, saltVars, digestVars, hbVars, fanVars, msgVars, fillVars, wideVars, sharedVars>>
notMsg == <<wsVars, lwsVars, pbookVars, lbookVars, restVars, trackerVars, rateVars,
    retryVars, amountVars, createVars, saltVars, digestVars, hbVars, fanVars, bpVars, fillVars, wideVars, sharedVars>>
notFill == <<wsVars, lwsVars, pbookVars, lbookVars, restVars, trackerVars, rateVars,
    retryVars, amountVars, createVars, saltVars, digestVars, hbVars, fanVars, bpVars, msgVars, wideVars, sharedVars>>
notWide == <<wsVars, lwsVars, pbookVars, lbookVars, restVars, trackerVars, rateVars,
    retryVars, amountVars, createVars, saltVars, digestVars, hbVars, fanVars, bpVars, msgVars, fillVars, sharedVars>>
notShared == <<wsVars, lwsVars, pbookVars, lbookVars, restVars, trackerVars, rateVars,
    retryVars, amountVars, createVars, saltVars, digestVars, hbVars, fanVars, bpVars, msgVars, fillVars, wideVars>>

\* ------------------------------------------------------------ pure helpers
\* Option<T> is a sequence of length 0 (None) or 1 (Some)
Some(x) == <<x>>
Nothing == <<>>
unwrap_or(opt, d) == IF opt = Nothing THEN d ELSE opt[1]

\* HashMap as a function whose domain is the set of keys
Insert(map, k, v) == [x \in DOMAIN map \cup {k} |-> IF x = k THEN v ELSE map[x]]
Remove(map, k) == [x \in DOMAIN map \ {k} |-> map[x]]
EmptyMap == [x \in {} |-> 0]

\* sequences over S of length at most n
SeqUpTo(S, n) == UNION {[1..k -> S] : k \in 0..n}

RECURSIVE Pow(_, _)
Pow(b, e) == IF e = 0 THEN 1 ELSE b * Pow(b, e - 1)

Min(a, b) == IF a <= b THEN a ELSE b

\* 3000 * 1.5^attempt, capped at 60000, truncated to whole milliseconds (as u64)
calculate_reconnect_delay(attempt) ==
    Min((RECONNECT_BASE_DELAY_MS * Pow(3, attempt)) \div Pow(2, attempt),
        RECONNECT_MAX_DELAY_MS)

\* the receiving end (rx / new_rx) of the channel in write_tx is still held by its session
ChannelOpen ==
    /\ write_tx # NoTx
    /\ LET t == write_tx[1] k == write_tx[2] IN
         \/ k = "first" /\ t_pc[t] = "session"
         \/ k = "re" /\ t_pc[t] \in {"r_state", "r_reset", "r_resub", "r_session"}

\* send_message: queue msg on write_tx if there is one; the venue gets it if the
\* session's writer still drains the channel
send_message(ids) == IF ChannelOpen THEN outbox \cup ids ELSE outbox

\* resubscribe_all: one subscribe message per entry of the subscriptions map
resubscribe_all == send_message(subscriptions)

InitWS ==
    /\ state = "Disconnected"
    /\ subscriptions = {}
    /\ orderbook_senders = {}
    /\ write_tx = NoTx
    /\ shutdown_tx = None
    /\ reconnect_attempts = 0
    /\ auto_reconnect \in BOOLEAN
    /\ c_pc = "idle"
    /\ c_arg = None
    /\ spawned = 0
    /\ t_pc = [t \in Tasks |-> "unborn"]
    /\ t_attempt = [t \in Tasks |-> 0]
    /\ closedCalled = FALSE
    /\ t_fails = [t \in Tasks |-> 0]
    /\ t_delay = [t \in Tasks |-> None]
    /\ outbox = {}

\* tasks that were spawned and have not returned
LiveTasks == {t \in Tasks : t_pc[t] \notin {"unborn", "done", "exhausted"}}

\* ------------------------------------------- PolymarketWebSocket: the caller
\* connect(), line 267: set_state(Connecting)
ConnectBegin ==
    /\ c_pc = "idle"
    /\ spawned < MaxTasks
    /\ Cardinality(LiveTasks) < (IF auto_reconnect THEN MaxLive ELSE MaxTasks)
    /\ state' = "Connecting"
    /\ closedCalled' = FALSE
    /\ c_pc' = "conn_attempt"
    /\ UNCHANGED notWS
    /\ UNCHANGED <<subscriptions, orderbook_senders, write_tx, shutdown_tx,
                   reconnect_attempts, auto_reconnect, c_arg, spawned, t_pc,
                   t_attempt, t_fails, t_delay, outbox>>

\* connect(), lines 269-271: connect_async fails, `?` returns the error
ConnectFail ==
    /\ c_pc = "conn_attempt"
    /\ c_pc' = "idle"
    /\ UNCHANGED notWS
    /\ UNCHANGED <<state, subscriptions, orderbook_senders, write_tx, shutdown_tx,
                   reconnect_attempts, auto_reconnect, c_arg, spawned, t_pc,
                   t_attempt, closedCalled, t_fails, t_delay,
                   outbox>>

\* connect(), lines 269-279: connect_async succeeds, write_tx = Some(tx)
ConnectOk ==
    /\ c_pc = "conn_attempt"
    /\ write_tx' = <<spawned + 1, "first">>
    /\ outbox' = {}
    /\ c_pc' = "conn_spawn"
    /\ UNCHANGED notWS
    /\ UNCHANGED <<state, subscriptions, orderbook_senders, shutdown_tx,
                   reconnect_attempts, auto_reconnect, c_arg, spawned, t_pc,
                   t_attempt, closedCalled, t_fails, t_delay>>

\* connect(), lines 281-307: shutdown_tx = Some(new sender) (the old one is dropped),
\* tokio::spawn of the session task
ConnectSpawn ==
    /\ c_pc = "conn_spawn"
    /\ spawned' = spawned + 1
    /\ shutdown_tx' = spawned + 1
    /\ t_pc' = [t_pc EXCEPT ![spawned + 1] = "session"]
    /\ c_pc' = "conn_set"
    /\ UNCHANGED notWS
    /\ UNCHANGED <<state, subscriptions, orderbook_senders, write_tx,
                   reconnect_attempts, auto_reconnect, c_arg, t_attempt,
                   closedCalled, t_fails, t_delay, outbox>>

\* connect(), line 444: set_state(Connected)
ConnectSetConnected ==
    /\ c_pc = "conn_set"
    /\ state' = "Connected"
    /\ c_pc' = "conn_reset"
    /\ UNCHANGED notWS
    /\ UNCHANGED <<subscriptions, orderbook_senders, write_tx, shutdown_tx,
                   reconnect_attempts, auto_reconnect, c_arg, spawned, t_pc,
                   t_attempt, closedCalled, t_fails, t_delay,
                   outbox>>

\* connect(), line 445: reset_reconnect_attempts()
ConnectReset ==
    /\ c_pc = "conn_reset"
    /\ reconnect_attempts' = 0
    /\ c_pc' = "conn_resub"
    /\ UNCHANGED notWS
    /\ UNCHANGED <<state, subscriptions, orderbook_senders, write_tx, shutdown_tx,
                   auto_reconnect, c_arg, spawned, t_pc, t_attempt, closedCalled,
                   t_fails, t_delay, outbox>>

\* connect(), lines 446-448: resubscribe_all()
ConnectResub ==
    /\ c_pc = "conn_resub"
    /\ outbox' = resubscribe_all
    /\ c_pc' = "idle"
    /\ UNCHANGED notWS
    /\ UNCHANGED <<state, subscriptions, orderbook_senders, write_tx, shutdown_tx,
                   reconnect_attempts, auto_reconnect, c_arg, spawned, t_pc,
                   t_attempt, closedCalled, t_fails, t_delay>>

\* disconnect(), line 452: set_state(Closed)
Disconnect ==
    /\ c_pc = "idle"
    /\ state' = "Closed"
    /\ closedCalled' = TRUE
    /\ c_pc' = "disc_send"
    /\ UNCHANGED notWS
    /\ UNCHANGED <<subscriptions, orderbook_senders, write_tx, shutdown_tx,
                   reconnect_attempts, auto_reconnect, c_arg, spawned, t_pc,
                   t_attempt, t_fails, t_delay, outbox>>

\* disconnect(), lines 453-456: take the shutdown sender and fire it
DisconnectSend ==
    /\ c_pc = "disc_send"
    /\ shutdown_tx' = None
    /\ c_pc' = "idle"
    /\ UNCHANGED notWS
    /\ UNCHANGED <<state, subscriptions, orderbook_senders, write_tx,
                   reconnect_attempts, auto_reconnect, c_arg, spawned, t_pc,
                   t_attempt, closedCalled, t_fails, t_delay,
                   outbox>>

\* subscribe(id), lines 460-465: subscriptions.insert
Subscribe(id) ==
    /\ c_pc = "idle"
    /\ subscriptions' = subscriptions \cup {id}
    /\ c_arg' = id
    /\ c_pc' = "sub_senders"
    /\ UNCHANGED notWS
    /\ UNCHANGED <<state, orderbook_senders, write_tx, shutdown_tx,
                   reconnect_attempts, auto_reconnect, spawned, t_pc, t_attempt,
                   closedCalled, t_fails, t_delay, outbox>>

\* subscribe(id), lines 467-473: create the broadcast channel if there is none
SubscribeSenders ==
    /\ c_pc = "sub_senders"
    /\ orderbook_senders' = orderbook_senders \cup {c_arg}
    /\ c_pc' = "sub_send"
    /\ UNCHANGED notWS
    /\ UNCHANGED <<state, subscriptions, write_tx, shutdown_tx, reconnect_attempts,
                   auto_reconnect, c_arg, spawned, t_pc, t_attempt, closedCalled,
                   t_fails, t_delay, outbox>>

\* subscribe(id), lines 475-487: if Connected, send the subscribe message
SubscribeSend ==
    /\ c_pc = "sub_send"
    /\ outbox' = IF state = "Connected" THEN send_message({c_arg}) ELSE outbox
    /\ c_pc' = "idle"
    /\ c_arg' = None
    /\ UNCHANGED notWS
    /\ UNCHANGED <<state, subscriptions, orderbook_senders, write_tx, shutdown_tx,
                   reconnect_attempts, auto_reconnect, spawned, t_pc, t_attempt,
                   closedCalled, t_fails, t_delay>>

\* unsubscribe(id), lines 491-494: subscriptions.remove
Unsubscribe(id) ==
    /\ c_pc = "idle"
    /\ subscriptions' = subscriptions \ {id}
    /\ c_arg' = id
    /\ c_pc' = "unsub_senders"
    /\ UNCHANGED notWS
    /\ UNCHANGED <<state, orderbook_senders, write_tx, shutdown_tx,
                   reconnect_attempts, auto_reconnect, spawned, t_pc, t_attempt,
                   closedCalled, t_fails, t_delay, outbox>>

\* unsubscribe(id), lines 495-498: senders.remove
UnsubscribeSenders ==
    /\ c_pc = "unsub_senders"
    /\ orderbook_senders' = orderbook_senders \ {c_arg}
    /\ c_pc' = "unsub_books"
    /\ UNCHANGED c_arg
    /\ UNCHANGED notWS
    /\ UNCHANGED <<state, subscriptions, write_tx, shutdown_tx, reconnect_attempts,
                   auto_reconnect, spawned, t_pc, t_attempt, closedCalled, t_fails,
                   t_delay, outbox>>

\* unsubscribe(id), lines 499-503: orderbooks.remove; no message is sent to the venue
UnsubscribeBooks ==
    /\ c_pc = "unsub_books"
    /\ orderbooks' = Remove(orderbooks, c_arg)
    /\ c_pc' = "idle"
    /\ c_arg' = None
    /\ UNCHANGED <<lwsVars, lbookVars, restVars, trackerVars, p_out>>
    /\ UNCHANGED laterVars
    /\ UNCHANGED <<state, subscriptions, orderbook_senders, write_tx, shutdown_tx,
                   reconnect_attempts, auto_reconnect, spawned, t_pc, t_attempt,
                   closedCalled, t_fails, t_delay, outbox>>

\* --------------------------- PolymarketWebSocket: the task spawned by connect()
SessionPc(k) == IF k = "first" THEN "session" ELSE "r_session"
AfterSession(k) == IF k = "first" THEN "check_closed" ELSE "r_check"

\* the select! of a session completes (lines 338-343, 411-414)
EndSession(t, k) ==
    /\ t_pc[t] = SessionPc(k)
    /\ t_pc' = [t_pc EXCEPT ![t] = AfterSession(k)]
    /\ UNCHANGED notWS
    /\ UNCHANGED <<state, subscriptions, orderbook_senders, write_tx, shutdown_tx,
                   reconnect_attempts, auto_reconnect, c_pc, c_arg, spawned,
                   t_attempt, closedCalled, t_fails, t_delay,
                   outbox>>

\* read_future ends: the transport reports an error, a close frame or end of stream
\* (lines 311-325, 394-408)
TransportError(t) == \E k \in {"first", "re"} : EndSession(t, k)

\* shutdown_rx resolves: disconnect() fired the sender, or a later connect()
\* replaced (dropped) it (line 342; the reconnected session does not select on it)
ShutdownSignal(t) ==
    /\ shutdown_tx # t
    /\ EndSession(t, "first")

\* write_future ends: every sender of the session's channel is gone because
\* write_tx was overwritten (lines 308, 339, 391, 412)
WriteClosed(t) == \E k \in {"first", "re"} :
    /\ write_tx # <<t, k>>
    /\ EndSession(t, k)

\* lines 345-353: return if Closed, else state = Disconnected; then `if auto_reconnect`
CheckClosed(t) ==
    /\ t_pc[t] = "check_closed"
    /\ IF state = "Closed"
         THEN /\ t_pc' = [t_pc EXCEPT ![t] = "done"]
              /\ UNCHANGED state
         ELSE /\ state' = "Disconnected"
              /\ t_pc' = [t_pc EXCEPT ![t] = IF auto_reconnect THEN "incr" ELSE "done"]
    /\ UNCHANGED notWS
    /\ UNCHANGED <<subscriptions, orderbook_senders, write_tx, shutdown_tx,
                   reconnect_attempts, auto_reconnect, c_pc, c_arg, spawned,
                   t_attempt, closedCalled, t_fails, t_delay,
                   outbox>>

\* lines 354-358 and 423-427: attempt = { *a += 1; *a } after a session was lost
IncrAttempts(t) ==
    /\ t_pc[t] \in {"incr", "r_incr"}
    /\ reconnect_attempts' = reconnect_attempts + 1
    /\ t_attempt' = [t_attempt EXCEPT ![t] = reconnect_attempts + 1]
    /\ t_fails' = [t_fails EXCEPT ![t] = 0]
    /\ t_pc' = [t_pc EXCEPT ![t] = "loop"]
    /\ UNCHANGED notWS
    /\ UNCHANGED <<state, subscriptions, orderbook_senders, write_tx, shutdown_tx,
                   auto_reconnect, c_pc, c_arg, spawned, closedCalled, t_delay, outbox>>

\* lines 360-364: `while attempt <= MAX_RECONNECT_ATTEMPTS` { state = Reconnecting ...
\* lines 439-440: after the loop, state = Disconnected
LoopTest(t) ==
    /\ t_pc[t] = "loop"
    /\ IF t_attempt[t] <= MAX_RECONNECT_ATTEMPTS
         THEN /\ state' = "Reconnecting"
              /\ t_pc' = [t_pc EXCEPT ![t] = "sleep"]
         ELSE /\ state' = "Disconnected"
              /\ t_pc' = [t_pc EXCEPT ![t] = "exhausted"]
    /\ t_attempt' = [t_attempt EXCEPT ![t] =
                        IF t_attempt[t] <= MAX_RECONNECT_ATTEMPTS THEN @ ELSE 0]
    /\ UNCHANGED notWS
    /\ UNCHANGED <<subscriptions, orderbook_senders, write_tx, shutdown_tx,
                   reconnect_attempts, auto_reconnect, c_pc, c_arg, spawned,
                   closedCalled, t_fails, t_delay, outbox>>

\* lines 366-367: sleep(calculate_reconnect_delay(attempt))
BackoffSleep(t) ==
    /\ t_pc[t] = "sleep"
    /\ t_delay' = [t_delay EXCEPT ![t] = calculate_reconnect_delay(t_attempt[t])]
    /\ t_pc' = [t_pc EXCEPT ![t] = "attempt"]
    /\ UNCHANGED notWS
    /\ UNCHANGED <<state, subscriptions, orderbook_senders, write_tx, shutdown_tx,
                   reconnect_attempts, auto_reconnect, c_pc, c_arg, spawned,
                   t_attempt, closedCalled, t_fails, outbox>>

\* lines 369, 429-435: connect_async fails; attempt = { *a += 1; *a }
ReconnectFail(t) ==
    /\ t_pc[t] = "attempt"
    /\ reconnect_attempts' = reconnect_attempts + 1
    /\ t_attempt' = [t_attempt EXCEPT ![t] = reconnect_attempts + 1]
    /\ t_fails' = [t_fails EXCEPT ![t] = t_fails[t] + 1]
    /\ t_pc' = [t_pc EXCEPT ![t] = "loop"]
    /\ UNCHANGED notWS
    /\ UNCHANGED <<state, subscriptions, orderbook_senders, write_tx, shutdown_tx,
                   auto_reconnect, c_pc, c_arg, spawned, closedCalled, t_delay, outbox>>

\* lines 369-377: connect_async succeeds; write_tx = Some(new_tx)
ReconnectOk(t) ==
    /\ t_pc[t] = "attempt"
    /\ write_tx' = <<t, "re">>
    /\ outbox' = {}
    /\ t_delay' = [t_delay EXCEPT ![t] = None]
    /\ t_pc' = [t_pc EXCEPT ![t] = "r_state"]
    /\ UNCHANGED notWS
    /\ UNCHANGED <<state, subscriptions, orderbook_senders, shutdown_tx,
                   reconnect_attempts, auto_reconnect, c_pc, c_arg, spawned,
                   t_attempt, closedCalled, t_fails>>

\* lines 379-382: state = Connected
ReconnectSetConnected(t) ==
    /\ t_pc[t] = "r_state"
    /\ state' = "Connected"
    /\ t_pc' = [t_pc EXCEPT ![t] = "r_reset"]
    /\ UNCHANGED notWS
    /\ UNCHANGED <<subscriptions, orderbook_senders, write_tx, shutdown_tx,
                   reconnect_attempts, auto_reconnect, c_pc, c_arg, spawned,
                   t_attempt, closedCalled, t_fails, t_delay,
                   outbox>>

\* lines 384-387: *a = 0
ReconnectReset(t) ==
    /\ t_pc[t] = "r_reset"
    /\ reconnect_attempts' = 0
    /\ t_pc' = [t_pc EXCEPT ![t] = "r_resub"]
    /\ UNCHANGED notWS
    /\ UNCHANGED <<state, subscriptions, orderbook_senders, write_tx, shutdown_tx,
                   auto_reconnect, c_pc, c_arg, spawned, t_attempt, closedCalled,
                   t_fails, t_delay, outbox>>

\* a reconnect that starts from an empty registry instead of replaying it
ReconnectResubCleared(t) ==
    /\ t_pc[t] = "r_resub"
    /\ subscriptions' = {}
    /\ orderbook_senders' = {}
    /\ t_pc' = [t_pc EXCEPT ![t] = "r_session"]
    /\ UNCHANGED notWS
    /\ UNCHANGED <<state, write_tx, shutdown_tx, reconnect_attempts, auto_reconnect,
                   c_pc, c_arg, spawned, t_attempt, closedCalled, t_fails, t_delay, outbox>>

\* line 389: resubscribe_all(), then the session's select! starts
ReconnectResub(t) ==
    /\ t_pc[t] = "r_resub"
    /\ outbox' = resubscribe_all
    /\ t_pc' = [t_pc EXCEPT ![t] = "r_session"]
    /\ UNCHANGED notWS
    /\ UNCHANGED <<state, subscriptions, orderbook_senders, write_tx, shutdown_tx,
                   reconnect_attempts, auto_reconnect, c_pc, c_arg, spawned,
                   t_attempt, closedCalled, t_fails, t_delay>>

\* lines 416-421: after a reconnected session, return if Closed
ReconnectCheckClosed(t) ==
    /\ t_pc[t] = "r_check"
    /\ t_pc' = [t_pc EXCEPT ![t] = IF state = "Closed" THEN "done" ELSE "r_incr"]
    /\ t_attempt' = [t_attempt EXCEPT ![t] = IF state = "Closed" THEN 0 ELSE @]
    /\ t_fails' = [t_fails EXCEPT ![t] = IF state = "Closed" THEN 0 ELSE @]
    /\ UNCHANGED notWS
    /\ UNCHANGED <<state, subscriptions, orderbook_senders, write_tx, shutdown_tx,
                   reconnect_attempts, auto_reconnect, c_pc, c_arg, spawned,
                   closedCalled, t_delay, outbox>>

CallerStep ==
    \/ ConnectBegin \/ ConnectFail \/ ConnectOk \/ ConnectSpawn
    \/ ConnectSetConnected \/ ConnectReset \/ ConnectResub
    \/ Disconnect \/ DisconnectSend
    \/ \E id \in Ids : Subscribe(id)
    \/ SubscribeSenders \/ SubscribeSend
    \/ \E id \in Ids : Unsubscribe(id)
    \/ UnsubscribeSenders \/ UnsubscribeBooks

TaskStep(t) ==
    \/ TransportError(t) \/ ShutdownSignal(t) \/ WriteClosed(t)
    \/ CheckClosed(t) \/ IncrAttempts(t) \/ LoopTest(t) \/ BackoffSleep(t)
    \/ ReconnectFail(t) \/ ReconnectOk(t) \/ ReconnectSetConnected(t)
    \/ ReconnectReset(t) \/ ReconnectResub(t) \/ ReconnectCheckClosed(t)

NextWS == CallerStep \/ \E t \in Tasks : TaskStep(t)

\* ----------------------------------------------------- LimitlessWebSocket
NoSubs == [slugs |-> {}, addresses |-> {}]

InitLWS ==
    /\ l_state = "Disconnected"
    /\ l_slugs = {}
    /\ l_addresses = {}
    /\ l_senders = {}
    /\ l_client = FALSE
    /\ l_pc = "idle"
    /\ l_arg = None
    /\ l_up = FALSE
    /\ l_events = <<>>
    /\ l_venueSubs = NoSubs

\* send_subscription (lines 114-139): needs a client; sends nothing when both
\* lists are empty; else emits the full lists, which replace what the venue had
send_subscription ==
    IF l_client /\ l_up /\ (l_slugs # {} \/ l_addresses # {})
      THEN [slugs |-> l_slugs, addresses |-> l_addresses]
      ELSE l_venueSubs

\* connect(), line 269: set_state(Connecting)
LConnectBegin ==
    /\ l_pc = "idle"
    /\ l_state' = "Connecting"
    /\ l_pc' = "conn_attempt"
    /\ UNCHANGED notLWS
    /\ UNCHANGED <<l_slugs, l_addresses, l_senders, l_client, l_arg, l_up,
                   l_events, l_venueSubs>>

\* connect(), lines 277-331: ClientBuilder::connect() fails, `?` returns the error
LConnectFail ==
    /\ l_pc = "conn_attempt"
    /\ l_pc' = "idle"
    /\ UNCHANGED notLWS
    /\ UNCHANGED <<l_state, l_slugs, l_addresses, l_senders, l_client, l_arg,
                   l_up, l_events, l_venueSubs>>

\* connect(), lines 277-336: the transport connects (the venue knows no
\* subscription of the new connection, a "connect" event is raised) and the
\* client is stored
LConnectOk ==
    /\ l_pc = "conn_attempt"
    /\ Len(l_events) < MaxEvents
    /\ l_up' = TRUE
    /\ l_venueSubs' = NoSubs
    /\ l_events' = Append(l_events, "connect")
    /\ l_client' = TRUE
    /\ l_pc' = "conn_set"
    /\ UNCHANGED notLWS
    /\ UNCHANGED <<l_state, l_slugs, l_addresses, l_senders, l_arg>>

\* connect(), lines 338-341: ws_state = Connected
LConnectSetConnected ==
    /\ l_pc = "conn_set"
    /\ l_state' = "Connected"
    /\ l_pc' = "conn_sub"
    /\ UNCHANGED notLWS
    /\ UNCHANGED <<l_slugs, l_addresses, l_senders, l_client, l_arg, l_up,
                   l_events, l_venueSubs>>

\* connect() line 343, subscribe() line 380, unsubscribe() line 401,
\* subscribe_market_address() line 459: send_subscription()
LSendSubscription ==
    /\ l_pc \in {"conn_sub", "send"}
    /\ l_venueSubs' = send_subscription
    /\ l_pc' = "idle"
    /\ l_arg' = None
    /\ UNCHANGED notLWS
    /\ UNCHANGED <<l_state, l_slugs, l_addresses, l_senders, l_client, l_up,
                   l_events>>

\* disconnect(), line 349: set_state(Closed)
LDisconnect ==
    /\ l_pc = "idle"
    /\ l_state' = "Closed"
    /\ l_pc' = "disc_client"
    /\ UNCHANGED notLWS
    /\ UNCHANGED <<l_slugs, l_addresses, l_senders, l_client, l_arg, l_up,
                   l_events, l_venueSubs>>

\* disconnect(), lines 351-359: take the client and disconnect it
LDisconnectClient ==
    /\ l_pc = "disc_client"
    /\ l_client' = FALSE
    /\ l_up' = IF l_client THEN FALSE ELSE l_up
    /\ l_pc' = "idle"
    /\ UNCHANGED notLWS
    /\ UNCHANGED <<l_state, l_slugs, l_addresses, l_senders, l_arg, l_events,
                   l_venueSubs>>

\* subscribe(id), lines 363-372
LSubscribe(id) ==
    /\ l_pc = "idle"
    /\ l_slugs' = l_slugs \cup {id}
    /\ l_senders' = l_senders \cup {id}
    /\ l_arg' = id
    /\ l_pc' = "read_state"
    /\ UNCHANGED notLWS
    /\ UNCHANGED <<l_state, l_addresses, l_client, l_up, l_events, l_venueSubs>>

\* subscribe_market_address(id), lines 437-451
LSubscribeAddress(id) ==
    /\ l_pc = "idle"
    /\ l_addresses' = l_addresses \cup {id}
    /\ l_senders' = l_senders \cup {id}
    /\ l_arg' = id
    /\ l_pc' = "read_state"
    /\ UNCHANGED notLWS
    /\ UNCHANGED <<l_state, l_slugs, l_client, l_up, l_events, l_venueSubs>>

\* unsubscribe(id), lines 387-393 (the cached book of id is removed under the
\* same lock)
LUnsubscribe(id) ==
    /\ l_pc = "idle"
    /\ l_slugs' = l_slugs \ {id}
    /\ l_addresses' = l_addresses \ {id}
    /\ l_senders' = l_senders \ {id}
    /\ l_orderbooks' = Remove(l_orderbooks, id)
    /\ l_arg' = id
    /\ l_pc' = "read_state"
    /\ UNCHANGED <<wsVars, pbookVars, restVars, trackerVars, l_out>>
    /\ UNCHANGED laterVars
    /\ UNCHANGED <<l_state, l_client, l_up, l_events, l_venueSubs>>

\* lines 374-379, 395-400, 453-458: read ws_state; send only if Connected
LReadState ==
    /\ l_pc = "read_state"
    /\ l_pc' = IF l_state = "Connected" THEN "send" ELSE "idle"
    /\ l_arg' = IF l_state = "Connected" THEN l_arg ELSE None
    /\ UNCHANGED notLWS
    /\ UNCHANGED <<l_state, l_slugs, l_addresses, l_senders, l_client, l_up,
                   l_events, l_venueSubs>>

\* the transport drops; the client raises a "disconnect" event
LTransportLost ==
    /\ l_up
    /\ Len(l_events) < MaxEvents
    /\ l_up' = FALSE
    /\ l_events' = Append(l_events, "disconnect")
    /\ UNCHANGED notLWS
    /\ UNCHANGED <<l_state, l_slugs, l_addresses, l_senders, l_client, l_pc,
                   l_arg, l_venueSubs>>

\* the socket.io client re-establishes the transport by itself (a new
\* connection: the venue knows none of the subscriptions) and raises "connect"
LTransportReconnect ==
    /\ ~l_up
    /\ l_client
    /\ Len(l_events) < MaxEvents
    /\ l_up' = TRUE
    /\ l_venueSubs' = NoSubs
    /\ l_events' = Append(l_events, "connect")
    /\ UNCHANGED notLWS
    /\ UNCHANGED <<l_state, l_slugs, l_addresses, l_senders, l_client, l_pc, l_arg>>

\* the "connect" handler, lines 279-287: ws_state = Connected
LOnConnect ==
    /\ l_events # <<>>
    /\ Head(l_events) = "connect"
    /\ l_state' = "Connected"
    /\ l_events' = Tail(l_events)
    /\ UNCHANGED notLWS
    /\ UNCHANGED <<l_slugs, l_addresses, l_senders, l_client, l_pc, l_arg, l_up,
                   l_venueSubs>>

\* the "disconnect" handler, lines 288-296: ws_state = Disconnected
LOnDisconnect ==
    /\ l_events # <<>>
    /\ Head(l_events) = "disconnect"
    /\ l_state' = "Disconnected"
    /\ l_events' = Tail(l_events)
    /\ UNCHANGED notLWS
    /\ UNCHANGED <<l_slugs, l_addresses, l_senders, l_client, l_pc, l_arg, l_up,
                   l_venueSubs>>

NextLWS ==
    \/ LConnectBegin \/ LConnectFail \/ LConnectOk \/ LConnectSetConnected
    \/ LSendSubscription \/ LDisconnect \/ LDisconnectClient
    \/ \E id \in Ids : LSubscribe(id)
    \/ \E id \in Ids : LSubscribeAddress(id)
    \/ \E id \in Ids : LUnsubscribe(id)
    \/ LReadState
    \/ LTransportLost \/ LTransportReconnect \/ LOnConnect \/ LOnDisconnect

\* ------------------------------------------------------------ order books
\* 1.0 in ticks of 0.001
One == 1000

PriceLevel(price, size) == [price |-> price, size |-> size]

\* what a venue may put in a level of a message: price and size as text that
\* either parses to a number (Some) or does not (Nothing)
RawLevels ==
    { [price |-> Nothing,   size |-> Some(1)],
      [price |-> Some(0),   size |-> Some(1)],
      [price |-> Some(340), size |-> Some(0)],
      [price |-> Some(340), size |-> Some(2)],
      [price |-> Some(660), size |-> Some(2)] }

RawPrices == {Nothing, Some(0), Some(340), Some(660)}


\* lines 133-149 / 151-167: parse price and size, keep the level only if both
\* parse and both are > 0
ParseLevels(raw) ==
    LET ok(l) == l.price # Nothing /\ l.size # Nothing /\ l.price[1] > 0 /\ l.size[1] > 0
        kept == SelectSeq(raw, ok)
    IN [i \in 1..Len(kept) |-> PriceLevel(kept[i].price[1], kept[i].size[1])]

\* broadcast_orderbook, lines 228-233: send if the asset has a sender
broadcast_orderbook(asset_id, orderbook) ==
    IF asset_id \in orderbook_senders
      THEN <<[asset_id |-> asset_id, book |-> orderbook]>>
      ELSE <<>>

\* handle_book_message, lines 125-184 (a message without asset_id is dropped)
handle_book_message(asset, raw_bids, raw_asks) ==
    /\ IF asset = Nothing
         THEN UNCHANGED orderbooks /\ p_out' = <<>>
         ELSE LET orderbook == [bids |-> ParseLevels(raw_bids),
                                asks |-> ParseLevels(raw_asks)]
              IN /\ orderbooks' = Insert(orderbooks, asset[1], orderbook)
                 /\ p_out' = broadcast_orderbook(asset[1], orderbook)
    /\ UNCHANGED notPBook

\* lines 197-218: one side of a price change: a best price that parses and is
\* > 0 becomes the price of level 0, or a new single level of size 1.0
ApplyBest(levels, best) ==
    IF best # Nothing /\ best[1] > 0
      THEN IF levels = <<>>
             THEN <<PriceLevel(best[1], 1)>>
             ELSE [levels EXCEPT ![1].price = best[1]]
      ELSE levels

\* lines 192-225: the loop over price_changes; a change for an asset without a
\* cached book is skipped
RECURSIVE ApplyChanges(_, _)
ApplyChanges(obs, changes) ==
    IF changes = <<>> THEN [obs |-> obs, out |-> <<>>]
    ELSE LET ch == Head(changes)
             obs1 == IF ch.asset_id \in DOMAIN obs
                       THEN [obs EXCEPT ![ch.asset_id] =
                               [bids |-> ApplyBest(@.bids, ch.best_bid),
                                asks |-> ApplyBest(@.asks, ch.best_ask)]]
                       ELSE obs
             sent == IF ch.asset_id \in DOMAIN obs
                       THEN broadcast_orderbook(ch.asset_id, obs1[ch.asset_id])
                       ELSE <<>>
             rest == ApplyChanges(obs1, Tail(changes))
         IN [obs |-> rest.obs, out |-> sent \o rest.out]

PriceChanges ==
    [asset_id : Ids, best_bid : RawPrices, best_ask : RawPrices]

\* handle_price_change, lines 186-226 (a message without price_changes is dropped)
handle_price_change(changes) ==
    /\ IF changes = Nothing
         THEN UNCHANGED orderbooks /\ p_out' = <<>>
         ELSE LET r == ApplyChanges(orderbooks, changes[1])
              IN orderbooks' = r.obs /\ p_out' = r.out
    /\ UNCHANGED notPBook

\* Vec::sort_by (stable) on price, ascending: a.price.partial_cmp(&b.price)
RECURSIVE InsertAsc(_, _)
InsertAsc(sorted, x) ==
    IF sorted = <<>> THEN <<x>>
    ELSE IF x.price < Head(sorted).price THEN <<x>> \o sorted
         ELSE <<Head(sorted)>> \o InsertAsc(Tail(sorted), x)

RECURSIVE SortAscFrom(_, _)
SortAscFrom(acc, rest) ==
    IF rest = <<>> THEN acc ELSE SortAscFrom(InsertAsc(acc, Head(rest)), Tail(rest))

SortAsc(levels) == SortAscFrom(<<>>, levels)

\* Vec::sort_by (stable) on price, descending: b.price.partial_cmp(&a.price)
RECURSIVE InsertDesc(_, _)
InsertDesc(sorted, x) ==
    IF sorted = <<>> THEN <<x>>
    ELSE IF x.price > Head(sorted).price THEN <<x>> \o sorted
         ELSE <<Head(sorted)>> \o InsertDesc(Tail(sorted), x)

RECURSIVE SortDescFrom(_, _)
SortDescFrom(acc, rest) ==
    IF rest = <<>> THEN acc ELSE SortDescFrom(InsertDesc(acc, Head(rest)), Tail(rest))

SortDesc(levels) == SortDescFrom(<<>>, levels)

\* LimitlessWebSocket::parse_price_level over a list (lines 141-159, 173-180)
parse_price_levels(raw) == ParseLevels(raw)

\* lines 207-209 / 254-256: send if the market has a sender
LBroadcast(market, orderbook) ==
    IF market \in l_senders
      THEN <<[asset_id |-> market, book |-> orderbook]>>
      ELSE <<>>

\* LimitlessWebSocket::handle_orderbook_update, lines 161-210
handle_orderbook_update(market_slug, raw_bids, raw_asks) ==
    /\ IF market_slug = Nothing
         THEN UNCHANGED l_orderbooks /\ l_out' = <<>>
         ELSE LET orderbook == [bids |-> SortDesc(parse_price_levels(raw_bids)),
                                asks |-> SortAsc(parse_price_levels(raw_asks))]
              IN /\ l_orderbooks' = Insert(l_orderbooks, market_slug[1], orderbook)
                 /\ l_out' = LBroadcast(market_slug[1], orderbook)
    /\ UNCHANGED notLBook

\* the book built by handle_price_update, lines 223-247
PriceUpdateBook(yes_price, no_price) ==
    [bids |-> IF yes_price > 0 THEN <<PriceLevel(yes_price, 1)>> ELSE <<>>,
     asks |-> IF no_price > 0 THEN <<PriceLevel(One - no_price, 1)>> ELSE <<>>]

\* LimitlessWebSocket::handle_price_update, lines 212-257
handle_price_update(market_address, updated_prices) ==
    /\ IF market_address = Nothing \/ updated_prices = Nothing
         THEN UNCHANGED l_orderbooks /\ l_out' = <<>>
         ELSE LET yes_price == unwrap_or(updated_prices[1].yes, 0)
                  no_price == unwrap_or(updated_prices[1].no, 0)
                  orderbook == PriceUpdateBook(yes_price, no_price)
              IN IF yes_price <= 0 /\ no_price <= 0
                   THEN UNCHANGED l_orderbooks /\ l_out' = <<>>
                   ELSE /\ l_orderbooks' = Insert(l_orderbooks, market_address[1], orderbook)
                        /\ l_out' = LBroadcast(market_address[1], orderbook)
    /\ UNCHANGED notLBook

\* yes / no prices a newPriceData message may carry
YesNoPrices == {Nothing, Some(0), Some(340), Some(660), Some(One)}

\* the "orderbookUpdate" handler, lines 297-309
LOrderbookUpdate ==
    \E slug \in {Nothing} \cup {Some(id) : id \in Ids},
       raw_bids \in SeqUpTo(RawLevels, MaxBidLevels),
       raw_asks \in SeqUpTo(RawLevels, MaxAskLevels) :
        handle_orderbook_update(slug, raw_bids, raw_asks)

\* the "newPriceData" handler, lines 310-322
LNewPriceData ==
    \E addr \in {Nothing} \cup {Some(id) : id \in Ids},
       prices \in {Nothing} \cup {Some(pr) : pr \in [yes : YesNoPrices, no : YesNoPrices]} :
        handle_price_update(addr, prices)

NextLBook == LOrderbookUpdate \/ LNewPriceData

\* ------------------------------------------- Limitless REST: get_orderbook
\* entries the "bids" / "asks" arrays of the response may hold: one without a
\* readable price, and two well-formed ones
RestLevels ==
    { [price |-> Nothing, size |-> Some(2)],
      [price |-> Some(340), size |-> Some(2)],
      [price |-> Some(660), size |-> Some(3)] }

\* an entry of the "orders" array of the response
RawOrders ==
    { [side |-> "buy", price |-> Some(340), size |-> Some(2)],
      [side |-> "sell", price |-> Some(0), size |-> Some(2)],
      [side |-> "sell", price |-> Some(660), size |-> Some(2)] }

\* lines 193-208: "orders" entries, kept only with price > 0 and size > 0
OrdersSide(orders, want_buy) ==
    LET ok(o) == /\ unwrap_or(o.price, 0) > 0
                 /\ unwrap_or(o.size, 0) > 0
                 /\ (o.side = "buy") = want_buy
        kept == SelectSeq(orders, ok)
    IN [i \in 1..Len(kept) |-> PriceLevel(kept[i].price[1], kept[i].size[1])]

\* lines 210-224: every entry of the "bids" / "asks" array is pushed, a price or
\* size that is missing or does not parse counting as 0.0
ArraySide(raw) ==
    [i \in 1..Len(raw) |-> PriceLevel(unwrap_or(raw[i].price, 0), unwrap_or(raw[i].size, 0))]

\* lines 231, 234: (1.0 - p * 1000.0).round() / 1000.0, in ticks
InvertPrice(p) == 1 - p

\* lines 229-240: the derived side of a "No" token
InvertLevels(levels) ==
    [i \in 1..Len(levels) |-> PriceLevel(InvertPrice(levels[i].price), levels[i].size)]

\* Limitless::get_orderbook, lines 180-260, for a response that arrived
get_orderbook(token, orders, bids_arr, asks_arr) ==
    LET is_no_token == token \in no_tokens
        slug == IF token \in DOMAIN token_to_slug THEN token_to_slug[token] ELSE token
        bids == SortDesc(OrdersSide(orders, TRUE) \o ArraySide(bids_arr))
        asks == SortAsc(OrdersSide(orders, FALSE) \o ArraySide(asks_arr))
    IN [market_id |-> slug,
        asset_id |-> token,
        canonical |-> [bids |-> bids, asks |-> asks, is_no_token |-> is_no_token],
        book |-> IF is_no_token
                   THEN [bids |-> SortDesc(InvertLevels(asks)),
                         asks |-> SortAsc(InvertLevels(bids))]
                   ELSE [bids |-> bids, asks |-> asks]]

InitRest ==
    /\ token_to_slug = EmptyMap
    /\ no_tokens = {}
    /\ rest_result = Nothing
    /\ rest_canonical = Nothing

\* register_market_tokens, lines 164-178
RegisterMarketTokens ==
    \E slug \in {1}, yes_id \in {Nothing, Some(1)}, no_id \in {Nothing, Some(2)} :
        LET m1 == IF yes_id = Nothing THEN token_to_slug
                  ELSE Insert(token_to_slug, yes_id[1], slug)
            m2 == IF no_id = Nothing THEN m1 ELSE Insert(m1, no_id[1], slug)
        IN /\ token_to_slug' = m2
           /\ no_tokens' = IF no_id = Nothing THEN no_tokens ELSE no_tokens \cup {no_id[1]}
           /\ UNCHANGED <<rest_result, rest_canonical>>
           /\ UNCHANGED notRest

\* get_orderbook, line 188: the request fails and the error is returned
GetOrderbookErr ==
    /\ rest_result' = Nothing
    /\ rest_canonical' = Nothing
    /\ UNCHANGED <<token_to_slug, no_tokens>>
    /\ UNCHANGED notRest

\* get_orderbook on a response with "orders", "bids" and "asks" arrays
GetOrderbookOk ==
    \E token \in Ids,
       orders \in SeqUpTo(RawOrders, MaxOrders),
       bids_arr \in SeqUpTo(RestLevels, MaxBidLevels),
       asks_arr \in SeqUpTo(RestLevels, MaxAskLevels) :
        \E r \in {get_orderbook(token, orders, bids_arr, asks_arr)} :
           /\ rest_result' = Some([market_id |-> r.market_id, asset_id |-> r.asset_id,
                                   bids |-> r.book.bids, asks |-> r.book.asks])
           /\ rest_canonical' = Some(r.canonical)
           /\ UNCHANGED <<token_to_slug, no_tokens>>
           /\ UNCHANGED notRest

NextRest == RegisterMarketTokens \/ GetOrderbookErr \/ GetOrderbookOk

InitPBook ==
    /\ orderbooks = EmptyMap
    /\ p_out = <<>>

InitLBook ==
    /\ l_orderbooks = EmptyMap
    /\ l_out = <<>>

\* the Polymarket reader receives a "book" message
PBookMessage ==
    \E asset \in {Nothing} \cup {Some(id) : id \in Ids},
       raw_bids \in SeqUpTo(RawLevels, MaxBidLevels),
       raw_asks \in SeqUpTo(RawLevels, MaxAskLevels) :
        handle_book_message(asset, raw_bids, raw_asks)

\* the Polymarket reader receives a "price_change" message
PPriceChangeMessage ==
    \E changes \in {Nothing} \cup {Some(c) : c \in SeqUpTo(PriceChanges, MaxChanges)} :
        handle_price_change(changes)

NextPBook == PBookMessage \/ PPriceChangeMessage


\* ------------------------------------------------------------ OrderTracker
\* threads that may call the tracker
Threads == {1, 2}

\* the orders a caller may hand to track_order
NewOrders ==
    [id : Ids, market_id : {"m"}, outcome : {"Yes"}, price : {500},
     size : 2..MaxSize, filled : {0, 1}, status : {"Open"},
     side : {"Buy"}, created_at : {Some(1)}]

\* the prices a fill may report
FillPrices == {400, 600}

\* TrackedOrder::new, lines 26-33
TrackedOrder_new(order) == [order |-> order, total_filled |-> order.filled]

\* a completion test that lets a fill reaching the size exactly stay partial
is_complete_strict(total_filled, size) == total_filled > size

\* line 98: tracked_order.total_filled >= tracked_order.order.size
is_complete(total_filled, size) == total_filled >= size

\* an updated order that keeps the price the order had
updated_order_limit(tr, total, fill_price, market_id, outcome) ==
    [id |-> tr.order.id,
     market_id |-> unwrap_or(market_id, tr.order.market_id),
     outcome |-> unwrap_or(outcome, tr.order.outcome),
     side |-> tr.order.side,
     price |-> tr.order.price,
     size |-> tr.order.size,
     filled |-> total,
     status |-> IF is_complete(total, tr.order.size) THEN "Filled" ELSE "PartiallyFilled",
     created_at |-> tr.order.created_at]

\* lines 105-120: the updated order handle_trade builds
updated_order(tr, total, fill_price, market_id, outcome) ==
    [id |-> tr.order.id,
     market_id |-> unwrap_or(market_id, tr.order.market_id),
     outcome |-> unwrap_or(outcome, tr.order.outcome),
     side |-> tr.order.side,
     price |-> fill_price,
     size |-> tr.order.size,
     filled |-> total,
     status |-> IF is_complete(total, tr.order.size) THEN "Filled" ELSE "PartiallyFilled",
     created_at |-> tr.order.created_at]

\* an emit that walks the callback list from its end
emit_reversed(event, order, fill_size) ==
    [i \in 1..callbacks |-> [callback |-> callbacks + 1 - i, event |-> event,
                             order |-> order, fill_size |-> fill_size]]

\* OrderTracker::emit, lines 152-157: every registered callback, in order
emit(event, order, fill_size) ==
    [i \in 1..callbacks |-> [callback |-> i, event |-> event, order |-> order,
                             fill_size |-> fill_size]]

NoEvent == [event |-> "none", order |-> Nothing]

InitTracker ==
    /\ tracked_orders = EmptyMap
    /\ callbacks = 0
    /\ o_pc = [t \in Threads |-> "idle"]
    /\ o_op = [t \in Threads |-> "none"]
    /\ o_id = [t \in Threads |-> None]
    /\ o_fill = [t \in Threads |-> 0]
    /\ o_found = [t \in Threads |-> Nothing]
    /\ o_event = [t \in Threads |-> NoEvent]
    /\ o_calls = [t \in Threads |-> <<>>]
    /\ re_stack = <<>>
    /\ cb_readers = 0

\* a thread enters a public operation: what the previous call left is dropped
Enter(t, op, id, fill_size, found) ==
    /\ o_pc[t] = "idle"
    /\ o_op' = [o_op EXCEPT ![t] = op]
    /\ o_id' = [o_id EXCEPT ![t] = id]
    /\ o_fill' = [o_fill EXCEPT ![t] = fill_size]
    /\ o_found' = [o_found EXCEPT ![t] = found]
    /\ o_calls' = [o_calls EXCEPT ![t] = <<>>]
    /\ UNCHANGED <<re_stack, cb_readers>>

\* OrderTracker::on_fill, lines 53-60
OnFill(t) ==
    /\ callbacks < MaxCallbacks
    /\ Enter(t, "on_fill", None, 0, Nothing)
    /\ callbacks' = callbacks + 1
    /\ UNCHANGED <<tracked_orders, o_pc, o_event>>
    /\ UNCHANGED notTracker

\* a track_order without the contains_key test: the insert replaces the entry
TrackOrderOverwrite(t) ==
    \E order \in NewOrders :
        /\ Enter(t, "track_order", order.id, 0, Nothing)
        /\ tracked_orders' = Insert(tracked_orders, order.id, TrackedOrder_new(order))
        /\ UNCHANGED <<callbacks, o_pc, o_event>>
        /\ UNCHANGED notTracker

\* OrderTracker::track_order, lines 62-80
TrackOrder(t) ==
    \E order \in NewOrders :
        /\ Enter(t, "track_order", order.id, 0, Nothing)
        /\ tracked_orders' = IF order.id \in DOMAIN tracked_orders
                               THEN tracked_orders
                               ELSE Insert(tracked_orders, order.id, TrackedOrder_new(order))
        /\ UNCHANGED <<callbacks, o_pc, o_event>>
        /\ UNCHANGED notTracker

\* OrderTracker::untrack_order, lines 82-85, called from outside
UntrackOrder(t) ==
    \E id \in Ids :
        /\ Enter(t, "untrack_order", id, 0, Nothing)
        /\ tracked_orders' = Remove(tracked_orders, id)
        /\ UNCHANGED <<callbacks, o_pc, o_event>>
        /\ UNCHANGED notTracker

\* OrderTracker::clear, lines 172-174
Clear(t) ==
    /\ Enter(t, "clear", None, 0, Nothing)
    /\ tracked_orders' = EmptyMap
    /\ UNCHANGED <<callbacks, o_pc, o_event>>
    /\ UNCHANGED notTracker

\* handle_trade, lines 88-131: the block that holds the write lock
handle_trade(t, id, fill_size, fill_price, market_id, outcome) ==
    IF id \notin DOMAIN tracked_orders
      THEN /\ Enter(t, "handle_trade", id, fill_size, Nothing)
           /\ UNCHANGED <<tracked_orders, callbacks, o_pc, o_event>>
      ELSE LET tr == tracked_orders[id]
               total == tr.total_filled + fill_size
               updated == updated_order(tr, total, fill_price, market_id, outcome)
               event == IF is_complete(total, tr.order.size)
                          THEN "Filled" ELSE "PartialFill"
           IN /\ Enter(t, "handle_trade", id, fill_size, Some(tr))
              /\ tracked_orders' = Insert(tracked_orders, id,
                                          [order |-> updated, total_filled |-> total])
              /\ o_event' = [o_event EXCEPT ![t] = [event |-> event, order |-> Some(updated)]]
              /\ o_pc' = [o_pc EXCEPT ![t] = "trade_emit"]
              /\ UNCHANGED callbacks

\* a caller's handle_trade with any arguments
HandleTrade(t) ==
    \E id \in Ids, fill_size \in 1..MaxFill, fill_price \in FillPrices,
       market_id \in {Nothing, Some("n")}, outcome \in {Nothing, Some("No")} :
        /\ handle_trade(t, id, fill_size, fill_price, market_id, outcome)
        /\ UNCHANGED notTracker

\* handle_trade, lines 133-135: self.emit(event, &updated_order, fill_size)
TradeEmit(t) ==
    /\ UNCHANGED <<re_stack, cb_readers>>
    /\ o_pc[t] = "trade_emit"
    /\ o_calls' = [o_calls EXCEPT ![t] = emit(o_event[t].event, o_event[t].order[1], o_fill[t])]
    /\ o_pc' = [o_pc EXCEPT ![t] = IF o_event[t].event = "Filled" THEN "trade_untrack" ELSE "idle"]
    /\ o_event' = [o_event EXCEPT ![t] = IF o_event[t].event = "Filled" THEN @ ELSE NoEvent]
    /\ UNCHANGED <<tracked_orders, callbacks, o_op, o_id, o_fill, o_found>>
    /\ UNCHANGED notTracker

\* handle_trade, line 136: self.untrack_order(order_id)
TradeUntrack(t) ==
    /\ UNCHANGED <<re_stack, cb_readers>>
    /\ o_pc[t] = "trade_untrack"
    /\ tracked_orders' = Remove(tracked_orders, o_id[t])
    /\ o_pc' = [o_pc EXCEPT ![t] = "idle"]
    /\ o_event' = [o_event EXCEPT ![t] = NoEvent]
    /\ UNCHANGED <<callbacks, o_op, o_id, o_fill, o_found, o_calls>>
    /\ UNCHANGED notTracker

\* a handle_cancel that reports the cancellation of an id it does not know,
\* with an order made up from the id
HandleCancelUnknown(t) ==
    \E id \in Ids :
        LET found == IF id \in DOMAIN tracked_orders THEN Some(tracked_orders[id]) ELSE Nothing
            order == IF id \in DOMAIN tracked_orders THEN tracked_orders[id].order
                     ELSE [id |-> id, market_id |-> "", outcome |-> "", price |-> 0,
                           size |-> 0, filled |-> 0, status |-> "Cancelled",
                           side |-> "Buy", created_at |-> Nothing]
        IN /\ Enter(t, "handle_cancel", id, 0, found)
           /\ o_event' = [o_event EXCEPT ![t] = [event |-> "Cancelled", order |-> Some(order)]]
           /\ o_pc' = [o_pc EXCEPT ![t] = "cancel_emit"]
           /\ UNCHANGED <<tracked_orders, callbacks>>
           /\ UNCHANGED notTracker

\* handle_cancel, lines 141-146: the read-locked lookup
HandleCancel(t) ==
    \E id \in Ids :
        IF id \notin DOMAIN tracked_orders
          THEN /\ Enter(t, "handle_cancel", id, 0, Nothing)
               /\ UNCHANGED <<tracked_orders, callbacks, o_pc, o_event>>
               /\ UNCHANGED notTracker
          ELSE /\ Enter(t, "handle_cancel", id, 0, Some(tracked_orders[id]))
               /\ o_event' = [o_event EXCEPT ![t] = [event |-> "Cancelled",
                                                     order |-> Some(tracked_orders[id].order)]]
               /\ o_pc' = [o_pc EXCEPT ![t] = "cancel_emit"]
               /\ UNCHANGED <<tracked_orders, callbacks>>
               /\ UNCHANGED notTracker

\* handle_cancel, line 147: self.emit(OrderEvent::Cancelled, &order, 0.0)
CancelEmit(t) ==
    /\ UNCHANGED <<re_stack, cb_readers>>
    /\ o_pc[t] = "cancel_emit"
    /\ o_calls' = [o_calls EXCEPT ![t] = emit("Cancelled", o_event[t].order[1], 0)]
    /\ o_pc' = [o_pc EXCEPT ![t] = "cancel_untrack"]
    /\ UNCHANGED <<tracked_orders, callbacks, o_op, o_id, o_fill, o_found, o_event>>
    /\ UNCHANGED notTracker

\* handle_cancel, line 148: self.untrack_order(order_id)
CancelUntrack(t) ==
    /\ UNCHANGED <<re_stack, cb_readers>>
    /\ o_pc[t] = "cancel_untrack"
    /\ tracked_orders' = Remove(tracked_orders, o_id[t])
    /\ o_pc' = [o_pc EXCEPT ![t] = "idle"]
    /\ o_event' = [o_event EXCEPT ![t] = NoEvent]
    /\ UNCHANGED <<callbacks, o_op, o_id, o_fill, o_found, o_calls>>
    /\ UNCHANGED notTracker

\* one thread using the tracker
NextTracker ==
    \/ OnFill(1)
    \/ TrackOrder(1)
    \/ UntrackOrder(1)
    \/ Clear(1)
    \/ HandleTrade(1)
    \/ TradeEmit(1)
    \/ TradeUntrack(1)
    \/ HandleCancel(1)
    \/ CancelEmit(1)
    \/ CancelUntrack(1)


\* --------------------- OrderTracker: callbacks that call back into the tracker
\* the public operations of the tracker
TrackerOps ==
    {"track_order", "untrack_order", "handle_trade", "handle_cancel",
     "get_tracked_orders", "tracked_count", "clear", "on_fill"}

\* what the passive-callback model keeps per thread
oVars == <<o_pc, o_op, o_id, o_fill, o_found, o_event, o_calls>>

\* a call in progress: the operation, where it is, its arguments and locals
Frame(op, id, fill_size, order) ==
    [op |-> op, pc |-> "start", id |-> id, fill_size |-> fill_size, order |-> order,
     event |-> "none", i |-> 0]

Top == re_stack[Len(re_stack)]
Pop == SubSeq(re_stack, 1, Len(re_stack) - 1)
SetTop(f) == [re_stack EXCEPT ![Len(re_stack)] = f]
AtTop(op, pc) == re_stack # <<>> /\ Top.op = op /\ Top.pc = pc

\* RwLock::write on callbacks (line 57) cannot be granted while a read guard is
\* held, the caller's own included; RwLock::read (line 153) is granted again to
\* a thread that already reads when no writer waits
CanWriteCallbacks == cb_readers = 0

\* the call on top of the stack waits for a lock that will not be granted
Blocked == AtTop("on_fill", "start") /\ ~CanWriteCallbacks

\* a public operation is called: by the thread itself when nothing is in
\* progress, else by the callback that emit (line 155) is running
ReCall ==
    /\ \/ re_stack = <<>>
       \/ /\ re_stack # <<>>
          /\ Top.pc = "callback" /\ Top.i <= callbacks /\ Len(re_stack) < MaxDepth
    /\ \E op \in TrackerOps, id \in Ids, fill_size \in 1..MaxFill, order \in NewOrders :
        /\ op = "track_order" => id = order.id
        /\ op # "track_order" => order = CHOOSE o \in NewOrders : TRUE
        /\ op # "handle_trade" => fill_size = 1
        /\ op \in {"get_tracked_orders", "tracked_count", "clear", "on_fill"} => id = 1
        /\ op = "on_fill" => callbacks < MaxCallbacks
        /\ re_stack' = Append(re_stack, Frame(op, id, fill_size, order))
    /\ UNCHANGED <<tracked_orders, callbacks, cb_readers, oVars>>
    /\ UNCHANGED notTracker

\* on_fill, lines 57-59: callbacks.write(), push
ReOnFill ==
    /\ AtTop("on_fill", "start")
    /\ CanWriteCallbacks
    /\ callbacks' = callbacks + 1
    /\ re_stack' = Pop
    /\ UNCHANGED <<tracked_orders, cb_readers, oVars>>
    /\ UNCHANGED notTracker

\* track_order, lines 62-80, under tracked_orders.write()
ReTrackOrder ==
    /\ AtTop("track_order", "start")
    /\ tracked_orders' = IF Top.id \in DOMAIN tracked_orders
                           THEN tracked_orders
                           ELSE Insert(tracked_orders, Top.id, TrackedOrder_new(Top.order))
    /\ re_stack' = Pop
    /\ UNCHANGED <<callbacks, cb_readers, oVars>>
    /\ UNCHANGED notTracker

\* untrack_order, lines 82-85, under tracked_orders.write()
ReUntrackOrder ==
    /\ AtTop("untrack_order", "start")
    /\ tracked_orders' = Remove(tracked_orders, Top.id)
    /\ re_stack' = Pop
    /\ UNCHANGED <<callbacks, cb_readers, oVars>>
    /\ UNCHANGED notTracker

\* clear, lines 172-174, under tracked_orders.write()
ReClear ==
    /\ AtTop("clear", "start")
    /\ tracked_orders' = EmptyMap
    /\ re_stack' = Pop
    /\ UNCHANGED <<callbacks, cb_readers, oVars>>
    /\ UNCHANGED notTracker

\* tracked_count and get_tracked_orders, lines 159-170, under tracked_orders.read()
ReRead ==
    /\ \/ AtTop("tracked_count", "start")
       \/ AtTop("get_tracked_orders", "start")
    /\ re_stack' = Pop
    /\ UNCHANGED <<tracked_orders, callbacks, cb_readers, oVars>>
    /\ UNCHANGED notTracker

\* handle_trade, lines 88-131: the block under tracked_orders.write(); the
\* guard is dropped at the end of the block
ReHandleTrade ==
    /\ AtTop("handle_trade", "start")
    /\ IF Top.id \notin DOMAIN tracked_orders
         THEN re_stack' = Pop /\ UNCHANGED tracked_orders
         ELSE LET tr == tracked_orders[Top.id]
                  total == tr.total_filled + Top.fill_size
                  updated == updated_order(tr, total, 400, Nothing, Nothing)
              IN /\ tracked_orders' = Insert(tracked_orders, Top.id,
                                             [order |-> updated, total_filled |-> total])
                 /\ re_stack' = SetTop([Top EXCEPT
                        !.pc = "emit",
                        !.order = updated,
                        !.event = IF is_complete(total, tr.order.size)
                                    THEN "Filled" ELSE "PartialFill"])
    /\ UNCHANGED <<callbacks, cb_readers, oVars>>
    /\ UNCHANGED notTracker

\* handle_cancel, lines 141-146: the lookup under tracked_orders.read()
ReHandleCancel ==
    /\ AtTop("handle_cancel", "start")
    /\ re_stack' = IF Top.id \notin DOMAIN tracked_orders
                     THEN Pop
                     ELSE SetTop([Top EXCEPT !.pc = "emit", !.event = "Cancelled",
                                             !.order = tracked_orders[Top.id].order])
    /\ UNCHANGED <<tracked_orders, callbacks, cb_readers, oVars>>
    /\ UNCHANGED notTracker

\* emit, line 153: callbacks.read(); the guard lives until emit returns
ReEmitBegin ==
    /\ re_stack # <<>> /\ Top.pc = "emit"
    /\ cb_readers' = cb_readers + 1
    /\ re_stack' = SetTop([Top EXCEPT !.pc = "callback", !.i = 1])
    /\ UNCHANGED <<tracked_orders, callbacks, oVars>>
    /\ UNCHANGED notTracker

\* emit, lines 154-156: callback i returns, the loop goes on
ReCallbackReturn ==
    /\ re_stack # <<>> /\ Top.pc = "callback" /\ Top.i <= callbacks
    /\ re_stack' = SetTop([Top EXCEPT !.i = @ + 1])
    /\ UNCHANGED <<tracked_orders, callbacks, cb_readers, oVars>>
    /\ UNCHANGED notTracker

\* emit, line 157: the loop is over, the read guard is dropped; handle_trade
\* (line 135) and handle_cancel (line 148) go on to untrack_order
ReEmitEnd ==
    /\ re_stack # <<>> /\ Top.pc = "callback" /\ Top.i > callbacks
    /\ cb_readers' = cb_readers - 1
    /\ re_stack' = IF Top.event = "PartialFill" THEN Pop
                   ELSE SetTop([Top EXCEPT !.pc = "untrack"])
    /\ UNCHANGED <<tracked_orders, callbacks, oVars>>
    /\ UNCHANGED notTracker

\* handle_trade line 136, handle_cancel line 148: self.untrack_order(order_id)
ReUntrack ==
    /\ re_stack # <<>> /\ Top.pc = "untrack"
    /\ tracked_orders' = Remove(tracked_orders, Top.id)
    /\ re_stack' = Pop
    /\ UNCHANGED <<callbacks, cb_readers, oVars>>
    /\ UNCHANGED notTracker

NextReentry ==
    \/ ReCall \/ ReOnFill \/ ReTrackOrder \/ ReUntrackOrder \/ ReClear \/ ReRead
    \/ ReHandleTrade \/ ReHandleCancel \/ ReEmitBegin \/ ReCallbackReturn
    \/ ReEmitEnd \/ ReUntrack


\* ------------------------------------------------------------- RateLimiter
\* the time unit: one second is TicksPerSecond ticks
TicksPerSecond == 4

\* the rates a limiter is built with: 0 (no limiting) and the rates whose
\* interval is a whole number of ticks
Rates == {0} \cup {r \in 1..TicksPerSecond : TicksPerSecond % r = 0}

\* an interval computed with an integer division of 1 by the rate
min_interval_int_div(requests_per_second) ==
    IF requests_per_second > 0 THEN (1 \div requests_per_second) * TicksPerSecond ELSE 0

\* RateLimiter::new, lines 11-15: 1.0 / requests_per_second seconds, or zero
new_min_interval(requests_per_second) ==
    IF requests_per_second > 0 THEN TicksPerSecond \div requests_per_second ELSE 0

\* a wait_time that is the whole interval
wait_time_whole(elapsed, interval) == interval

\* wait, line 26: self.min_interval - elapsed
wait_time(elapsed, interval) == interval - elapsed

\* RateLimiter::new, lines 17-20, at the present time
NewLimiter(requests_per_second) ==
    /\ rl_rate' = requests_per_second
    /\ min_interval' = new_min_interval(requests_per_second)
    /\ last_request' = rl_now - new_min_interval(requests_per_second)
    /\ rl_pc' = "idle"
    /\ rl_wake_at' = 0
    /\ rl_elapsed' = 0
    /\ rl_sleep' = 0
    /\ rl_done' = <<>>

InitRate ==
    /\ rl_now = 0
    /\ rl_rate = 0
    /\ min_interval = 0
    /\ last_request = 0
    /\ rl_pc = "idle"
    /\ rl_wake_at = 0
    /\ rl_elapsed = 0
    /\ rl_sleep = 0
    /\ rl_done = <<>>

\* time passes
RlTick ==
    /\ rl_now < MaxTime
    /\ rl_now' = rl_now + 1
    /\ UNCHANGED <<rl_rate, last_request, min_interval, rl_pc, rl_wake_at, rl_elapsed,
                   rl_sleep, rl_done>>
    /\ UNCHANGED notRate

\* RateLimiter::new(requests_per_second): the caller builds a limiter
RlNew ==
    /\ rl_pc = "idle"
    /\ \E requests_per_second \in Rates : NewLimiter(requests_per_second)
    /\ UNCHANGED rl_now
    /\ UNCHANGED notRate

\* wait, lines 24-28: read elapsed; sleep(wait_time) if elapsed < min_interval
RlWait ==
    /\ rl_pc = "idle"
    /\ Len(rl_done) < MaxWaits
    /\ LET elapsed == rl_now - last_request IN
         /\ rl_elapsed' = elapsed
         /\ IF elapsed < min_interval
              THEN /\ rl_sleep' = wait_time(elapsed, min_interval)
                   /\ rl_wake_at' = rl_now + wait_time(elapsed, min_interval)
                   /\ rl_pc' = "sleeping"
              ELSE /\ rl_sleep' = 0
                   /\ rl_wake_at' = rl_now
                   /\ rl_pc' = "stamp"
    /\ UNCHANGED <<rl_now, rl_rate, last_request, min_interval, rl_done>>
    /\ UNCHANGED notRate

\* wait, line 27: the sleep ends, not before its deadline
RlWake ==
    /\ rl_pc = "sleeping"
    /\ rl_now >= rl_wake_at
    /\ rl_pc' = "stamp"
    /\ UNCHANGED <<rl_now, rl_rate, last_request, min_interval, rl_wake_at, rl_elapsed,
                   rl_sleep, rl_done>>
    /\ UNCHANGED notRate

\* wait, lines 29-30: self.last_request = Instant::now(), and the call returns
RlStamp ==
    /\ rl_pc = "stamp"
    /\ last_request' = rl_now
    /\ rl_done' = Append(rl_done, rl_now)
    /\ rl_pc' = "idle"
    /\ UNCHANGED <<rl_now, rl_rate, min_interval, rl_wake_at, rl_elapsed, rl_sleep>>
    /\ UNCHANGED notRate

NextRate == RlTick \/ RlNew \/ RlWait \/ RlWake \/ RlStamp


\* ------------------------------------------------------ retry_with_backoff
\* the initial_delay arguments, in ticks
InitialDelays == {0, 1, 2, 3}

\* an invocation of f with its outcome, and a sleep with its duration
Invoked(ok) == [kind |-> "f", ok |-> ok, d |-> 0]
Slept(d) == [kind |-> "sleep", ok |-> FALSE, d |-> d]

\* Result<T, E>: the value or the error of the index-th invocation of f
Ok(index) == [ok |-> TRUE, of |-> index]
Err(index) == [ok |-> FALSE, of |-> index]

\* the number of invocations of f in a log
Invocations(log) == Len(SelectSeq(log, LAMBDA e : e.kind = "f"))

\* a guard that gives up one attempt early
may_retry_short(attempt, max_attempts) == attempt + 2 < max_attempts

\* line 46, the guard of the retrying arm: attempt + 1 < max_attempts
may_retry(attempt, max_attempts) == attempt + 1 < max_attempts

\* a delay that stays what it was
next_delay_constant(delay) == delay

\* line 48: delay *= 2
next_delay(delay) == delay * 2

InitRetry ==
    /\ rb_pc = "idle"
    /\ rb_max_attempts = 1
    /\ rb_initial_delay = 0
    /\ rb_attempt = 0
    /\ rb_delay = 0
    /\ rb_log = <<>>
    /\ rb_result = Nothing

\* lines 33-42: the call begins; a range 0..0 is empty and line 56 is reached
RbStart ==
    /\ rb_pc \in {"idle", "done", "panicked"}
    /\ \E max_attempts \in 0..MaxAttempts, initial_delay \in InitialDelays :
        /\ rb_max_attempts' = max_attempts
        /\ rb_initial_delay' = initial_delay
        /\ rb_delay' = initial_delay
        /\ rb_pc' = IF max_attempts > 0 THEN "call" ELSE "panicked"
    /\ rb_attempt' = 0
    /\ rb_log' = <<>>
    /\ rb_result' = Nothing
    /\ UNCHANGED notRetry

\* lines 43-45: f().await returned Ok
RbOk ==
    /\ rb_pc = "call"
    /\ rb_log' = Append(rb_log, Invoked(TRUE))
    /\ rb_result' = Some(Ok(Invocations(rb_log) + 1))
    /\ rb_pc' = "done"
    /\ UNCHANGED <<rb_max_attempts, rb_initial_delay, rb_attempt, rb_delay>>
    /\ UNCHANGED notRetry

\* lines 46-47: f().await returned Err and attempts remain: sleep(delay)
RbErrRetry ==
    /\ rb_pc = "call"
    /\ may_retry(rb_attempt, rb_max_attempts)
    /\ rb_log' = rb_log \o <<Invoked(FALSE), Slept(rb_delay)>>
    /\ rb_pc' = "sleeping"
    /\ UNCHANGED <<rb_max_attempts, rb_initial_delay, rb_attempt, rb_delay, rb_result>>
    /\ UNCHANGED notRetry

\* line 51: f().await returned Err on the last attempt
RbErrLast ==
    /\ rb_pc = "call"
    /\ ~may_retry(rb_attempt, rb_max_attempts)
    /\ rb_log' = Append(rb_log, Invoked(FALSE))
    /\ rb_result' = Some(Err(Invocations(rb_log) + 1))
    /\ rb_pc' = "done"
    /\ UNCHANGED <<rb_max_attempts, rb_initial_delay, rb_attempt, rb_delay>>
    /\ UNCHANGED notRetry

\* lines 48-49 and 42: the sleep is over; delay *= 2; the next iteration, or
\* line 56 when the range is exhausted
RbSleepEnd ==
    /\ rb_pc = "sleeping"
    /\ rb_delay' = next_delay(rb_delay)
    /\ rb_attempt' = rb_attempt + 1
    /\ rb_pc' = IF rb_attempt + 1 < rb_max_attempts THEN "call" ELSE "panicked"
    /\ UNCHANGED <<rb_max_attempts, rb_initial_delay, rb_log, rb_result>>
    /\ UNCHANGED notRetry

NextRetry == RbStart \/ RbOk \/ RbErrRetry \/ RbErrLast \/ RbSleepEnd


\* ----------------------------------------------------------- order builders
\* sizes and prices are decimal numbers given in millionths: 1001000 is 1.001

\* LimitlessClobClient::build_signed_order, the scale factors
shares_scale == 1000000
collateral_scale == 1000000
price_scale == 1000000
price_tick == 1000

\* ClobClient::create_order: decimals and scale = 10u64.pow(decimals)
decimals == 6
scale == Pow(10, decimals)

\* the size and price arguments the builders are called with
Sizes == {1, 2500, 10000, 1000000, 1001000}
Prices == {9000, 31000, 69000, 333333, 500000}
Sides == {"Buy", "Sell"}

\* products of two amounts exceed TLC's integers: x * y is computed in limbs
\* of 1000 as WideQuot(x, y) * 10^6 + WideRem(x, y)
Limb == 1000
WideMid(x, y) ==
    ((x \div Limb) * (y % Limb)) + ((x % Limb) * (y \div Limb))
      + (((x % Limb) * (y % Limb)) \div Limb)
WideQuot(x, y) == ((x \div Limb) * (y \div Limb)) + (WideMid(x, y) \div Limb)
WideRem(x, y) == ((WideMid(x, y) % Limb) * Limb) + (((x % Limb) * (y % Limb)) % Limb)

\* (size * 10^6 as f64) as u64: the binary64 product, truncated; 1.001 * 1e6
\* evaluates to 1000999.9999999999
f64_scaled_size(size) == IF size = 1001000 THEN size - 1 ELSE size

\* (price * price_scale as f64) as u64: exact for every price of Prices
f64_scaled_price(price) == price

\* (size * price * scale as f64) as u64: the binary64 products, truncated;
\* they fall just below the exact product for the sizes and prices listed
f64_usdc_amount(size, price) ==
    WideQuot(size, price)
      - (IF \/ (size = 10000 /\ price = 9000)
            \/ (size = 1001000 /\ price \in {9000, 31000, 69000, 500000})
         THEN 1 ELSE 0)

\* an amount in wei: e12 * 10^12 + e6 * 10^6 + dev
Wei(e12, e6, dev) == [e12 |-> e12, e6 |-> e6, dev |-> dev]

\* (size * 1e18) as u128: the binary64 product, truncated
f64_shares_wei(size) == Wei(size, 0, IF size = 1001000 THEN -128 ELSE 0)

\* (price * 1e18) as u128: the binary64 product, truncated
f64_price_wei(price) ==
    Wei(price, 0, CASE price = 9000 -> -1 [] price = 69000 -> 8 [] OTHER -> 0)

\* (shares_wei as f64 * price_wei as f64 / 1e18) as u128, evaluated in
\* binary64: the exact size * price * 10^6 and what the evaluation adds to it
f64_maker_wei(size, price) ==
    Wei(WideQuot(size, price), WideRem(size, price),
        CASE size = 1 /\ price = 9000 -> -1
          [] size = 1000000 /\ price = 9000 -> -1
          [] size = 1000000 /\ price = 31000 -> -4
          [] size = 1001000 /\ price = 9000 -> -2
          [] size = 1001000 /\ price = 31000 -> -4
          [] size = 1001000 /\ price = 69000 -> -8
          [] size = 1001000 /\ price = 333333 -> -64
          [] size = 1001000 /\ price = 500000 -> -64
          [] OTHER -> 0)

\* Limitless, lines 316-317: shares aligned down to a multiple of shares_step
shares_step == price_scale \div price_tick
align_up(shares) == ((shares + shares_step - 1) \div shares_step) * shares_step
align(shares) == (shares \div shares_step) * shares_step

\* Limitless, lines 320-321 and 332: numerator / denominator, the equal
\* factors collateral_scale and shares_scale cancelled
collateral_down(shares, price_int) == WideQuot(shares, price_int)

\* Limitless, line 326: (numerator + denominator - 1) / denominator
collateral_up(shares, price_int) ==
    WideQuot(shares, price_int) + (IF WideRem(shares, price_int) > 0 THEN 1 ELSE 0)

InitAmount ==
    /\ am_builder = "none"
    /\ am_side = "Buy"
    /\ am_size = 0
    /\ am_price = 0
    /\ am_scaled = 0
    /\ am_shares = 0
    /\ am_price_int = 0
    /\ am_maker = 0
    /\ am_taker = 0

\* LimitlessClobClient::build_signed_order, lines 306-335
LimitlessBuild ==
    /\ \E size \in Sizes, price \in Prices, side \in Sides :
        LET shares == align(f64_scaled_size(size))
            price_int == f64_scaled_price(price)
        IN /\ am_size' = size /\ am_price' = price /\ am_side' = side
           /\ am_scaled' = f64_scaled_size(size)
           /\ am_shares' = shares
           /\ am_price_int' = price_int
           /\ IF side = "Buy"
                THEN /\ am_maker' = collateral_up(shares, price_int)
                     /\ am_taker' = shares
                ELSE /\ am_maker' = shares
                     /\ am_taker' = collateral_down(shares, price_int)
    /\ am_builder' = "limitless"
    /\ UNCHANGED notAmount

\* ClobClient::create_order, lines 194-207
PolymarketCreateOrder ==
    /\ \E size \in Sizes, price \in Prices, side \in Sides :
        LET usdc_amount == f64_usdc_amount(size, price)
            shares == f64_scaled_size(size)
        IN /\ am_size' = size /\ am_price' = price /\ am_side' = side
           /\ am_scaled' = shares
           /\ am_shares' = shares
           /\ am_price_int' = price
           /\ IF side = "Buy"
                THEN am_maker' = usdc_amount /\ am_taker' = shares
                ELSE am_maker' = shares /\ am_taker' = usdc_amount
    /\ am_builder' = "polymarket"
    /\ UNCHANGED notAmount

\* PredictFun::build_signed_order, lines 762-779
PredictFunBuild ==
    /\ \E size \in Sizes, price \in Prices, side \in Sides :
        LET shares_wei == f64_shares_wei(size)
            price_wei == f64_price_wei(price)
        IN /\ am_size' = size /\ am_price' = price /\ am_side' = side
           /\ am_scaled' = shares_wei
           /\ am_shares' = shares_wei
           /\ am_price_int' = price_wei
           /\ IF side = "Buy"
                THEN am_maker' = f64_maker_wei(size, price) /\ am_taker' = shares_wei
                ELSE am_maker' = shares_wei /\ am_taker' = f64_maker_wei(size, price)
    /\ am_builder' = "predictfun"
    /\ UNCHANGED notAmount

NextAmount == LimitlessBuild \/ PolymarketCreateOrder \/ PredictFunBuild

\* ------------------------------------------------------------ create_order
\* the price and size arguments create_order is called with, in millionths:
\* inside and outside the range of a valid order
CreatePrices == {-500000, 0, 500000, 1000000, 1500000}
CreateSizes == {-1000000, 0, 1000000}

\* an f64 cast with "as u64" / "as u128": negative values saturate to zero
saturating_cast(v) == IF v < 0 THEN 0 ELSE v

SignedOrder(maker_amount, taker_amount) ==
    [maker_amount |-> maker_amount, taker_amount |-> taker_amount]

\* LimitlessClobClient::build_signed_order, lines 312-335, for any f64 arguments
limitless_signed_order(price, size, side) ==
    LET shares == align(saturating_cast(f64_scaled_size(size)))
        price_int == saturating_cast(f64_scaled_price(price))
    IN IF side = "Buy"
         THEN SignedOrder(collateral_up(shares, price_int), shares)
         ELSE SignedOrder(shares, collateral_down(shares, price_int))

\* ClobClient::create_order, lines 197-208, for any f64 arguments
polymarket_signed_order(price, size, side) ==
    LET usdc_amount == saturating_cast(f64_usdc_amount(size, price))
        shares == saturating_cast(f64_scaled_size(size))
    IN IF side = "Buy"
         THEN SignedOrder(usdc_amount, shares)
         ELSE SignedOrder(shares, usdc_amount)

\* PredictFun::build_signed_order, lines 762-779, for any f64 arguments
predictfun_signed_order(price, size, side) ==
    LET shares_wei == IF size > 0 THEN f64_shares_wei(size) ELSE Wei(0, 0, 0)
        amount == IF size > 0 /\ price > 0 THEN f64_maker_wei(size, price) ELSE Wei(0, 0, 0)
    IN IF side = "Buy"
         THEN SignedOrder(amount, shares_wei)
         ELSE SignedOrder(shares_wei, amount)

\* Limitless::create_order, line 591
limitless_price_ok(price) == ~(price <= 0 \/ price >= 1000000)

\* PredictFun::create_order, line 1015
predictfun_price_ok(price) == ~(price <= 0 \/ price > 1000000)

InitCreate ==
    /\ co_venue = "none"
    /\ co_entry = "none"
    /\ co_price = 0
    /\ co_size = 0
    /\ co_side = "Buy"
    /\ co_result = "none"
    /\ co_signed = Nothing
    /\ co_posted = FALSE

\* the arguments of a call are recorded
CoCall(venue, entry, price, size, side) ==
    /\ co_venue' = venue
    /\ co_entry' = entry
    /\ co_price' = price
    /\ co_size' = size
    /\ co_side' = side

\* LimitlessClobClient::build_signed_order called by a user of the client
LimitlessBuildSignedOrder ==
    /\ \E price \in CreatePrices, size \in CreateSizes, side \in Sides :
        /\ CoCall("limitless", "build_signed_order", price, size, side)
        /\ co_signed' = Some(limitless_signed_order(price, size, side))
    /\ co_result' = "Ok"
    /\ co_posted' = FALSE
    /\ UNCHANGED notCreate

\* ClobClient::create_order (the Polymarket signing entry point) called by a
\* user of the client
PolymarketClobCreateOrder ==
    /\ \E price \in CreatePrices, size \in CreateSizes, side \in Sides :
        /\ CoCall("polymarket", "build_signed_order", price, size, side)
        /\ co_signed' = Some(polymarket_signed_order(price, size, side))
    /\ co_result' = "Ok"
    /\ co_posted' = FALSE
    /\ UNCHANGED notCreate

\* Limitless::create_order, lines 569-640, on an authenticated client and a
\* market with its tokens: the price check, build_signed_order, post_order
LimitlessCreateOrder ==
    /\ \E price \in CreatePrices, size \in CreateSizes, side \in Sides :
        /\ CoCall("limitless", "create_order", price, size, side)
        /\ IF ~limitless_price_ok(price)
             THEN /\ co_result' = "InvalidOrder"
                  /\ co_signed' = Nothing
                  /\ co_posted' = FALSE
             ELSE /\ co_signed' = Some(limitless_signed_order(price, size, side))
                  /\ co_posted' = TRUE
                  /\ co_result' \in {"Ok", "Api"}
    /\ UNCHANGED notCreate

\* Polymarket::create_order, lines 979-1048: no check; create_order, post_order
PolymarketCreateOrderCall ==
    /\ \E price \in CreatePrices, size \in CreateSizes, side \in Sides :
        /\ CoCall("polymarket", "create_order", price, size, side)
        /\ co_signed' = Some(polymarket_signed_order(price, size, side))
    /\ co_posted' = TRUE
    /\ co_result' \in {"Ok", "OrderRejected"}
    /\ UNCHANGED notCreate

\* PredictFun::create_order, lines 976-1075: the price check,
\* build_signed_order, the POST of the order
PredictFunCreateOrder ==
    /\ \E price \in CreatePrices, size \in CreateSizes, side \in Sides :
        /\ CoCall("predictfun", "create_order", price, size, side)
        /\ IF ~predictfun_price_ok(price)
             THEN /\ co_result' = "InvalidOrder"
                  /\ co_signed' = Nothing
                  /\ co_posted' = FALSE
             ELSE /\ co_signed' = Some(predictfun_signed_order(price, size, side))
                  /\ co_posted' = TRUE
                  /\ co_result' \in {"Ok", "Api"}
    /\ UNCHANGED notCreate

NextCreate ==
    \/ LimitlessBuildSignedOrder
    \/ PolymarketClobCreateOrder
    \/ LimitlessCreateOrder
    \/ PolymarketCreateOrderCall
    \/ PredictFunCreateOrder

\* -------------------------------------------------------------- order salts
\* the values rand::random::<u32>() % 1_000_000 takes in the model
Jitters == {0, 1, 999999}

Venues == {"limitless", "polymarket", "predictfun"}

\* LimitlessClobClient::build_signed_order, lines 299-304
limitless_salt(timestamp_ms) == timestamp_ms * 1000 + (timestamp_ms % 1000) + 86400000

\* ClobClient::create_order, line 184
polymarket_salt(timestamp_ms) == timestamp_ms * 1000

\* PredictFun::build_signed_order, lines 759-760
predictfun_salt(timestamp_ms, random) == timestamp_ms * 1000000 + random

InitSalt ==
    /\ sl_now = 0
    /\ sl_salts = [v \in Venues |-> <<>>]

\* the millisecond clock advances
SaltTick ==
    /\ sl_now < MaxClock
    /\ sl_now' = sl_now + 1
    /\ UNCHANGED sl_salts
    /\ UNCHANGED notSalt

\* LimitlessClobClient::build_signed_order: one more order, its salt recorded
LimitlessSalt ==
    /\ Len(sl_salts["limitless"]) < MaxBuilt
    /\ sl_salts' = [sl_salts EXCEPT !["limitless"] = Append(@, limitless_salt(sl_now))]
    /\ UNCHANGED sl_now
    /\ UNCHANGED notSalt

\* ClobClient::create_order: one more order, its salt recorded
PolymarketSalt ==
    /\ Len(sl_salts["polymarket"]) < MaxBuilt
    /\ sl_salts' = [sl_salts EXCEPT !["polymarket"] = Append(@, polymarket_salt(sl_now))]
    /\ UNCHANGED sl_now
    /\ UNCHANGED notSalt

\* PredictFun::build_signed_order: one more order, its salt recorded
PredictFunSalt ==
    /\ Len(sl_salts["predictfun"]) < MaxBuilt
    /\ \E random \in Jitters :
        sl_salts' = [sl_salts EXCEPT !["predictfun"] = Append(@, predictfun_salt(sl_now, random))]
    /\ UNCHANGED sl_now
    /\ UNCHANGED notSalt

NextSalt == SaltTick \/ LimitlessSalt \/ PolymarketSalt \/ PredictFunSalt

\* ------------------------------------------------------------ order digests
\* keccak256 and ethers::abi::encode as injective constructors
keccak256(bytes) == <<"keccak256", bytes>>
abi_encode(tokens) == <<"abi", tokens>>

\* u128::to_string / U256::from_dec_str: decimal digits, most significant first
RECURSIVE to_string(_)
to_string(n) == IF n < 10 THEN <<n>> ELSE Append(to_string(n \div 10), n % 10)
RECURSIVE from_dec_str(_)
from_dec_str(digits) ==
    IF digits = <<>> THEN 0
    ELSE from_dec_str(SubSeq(digits, 1, Len(digits) - 1)) * 10 + digits[Len(digits)]

\* the order fields that vary in the model; maker and signer are the client's
\* address, taker the zero address, expiration and nonce zero, signatureType 0
DigestOrders ==
    [salt : {5, 12}, maker : {"0xA1"}, token_id : {7}, maker_amount : {10, 25},
     taker_amount : {50}, fee_rate_bps : {300}, side : {0}]
ChainIds == {1, 2}
ExchangeAddresses == {"0xE1", "0xE2"}

ORDER_TYPE ==
    "Order(uint256 salt,address maker,address signer,address taker,uint256 tokenId,uint256 makerAmount,uint256 takerAmount,uint256 expiration,uint256 nonce,uint256 feeRateBps,uint8 side,uint8 signatureType)"
DOMAIN_TYPE ==
    "EIP712Domain(string name,string version,uint256 chainId,address verifyingContract)"

\* compute_domain_separator of both venues, with the venue's protocol name
\* and version
compute_domain_separator(name, version, chain_id, exchange_address) ==
    keccak256(abi_encode(<<keccak256(DOMAIN_TYPE), keccak256(name), keccak256(version),
                           chain_id, exchange_address>>))

\* the struct hash: Limitless compute_order_hash lines 408-422, PredictFun
\* compute_struct_hash lines 893-907
struct_hash(salt, maker, signer, taker, token_id, maker_amount, taker_amount, expiration, nonce, fee_rate_bps, side, signature_type) ==
    keccak256(abi_encode(<<keccak256(ORDER_TYPE), salt, maker, signer, taker, token_id,
                           maker_amount, taker_amount, expiration, nonce, fee_rate_bps,
                           side, signature_type>>))

\* a digest into which the time of the call is mixed
eip712_digest_timestamped(domain_separator, hash) ==
    keccak256(<<25, 1, domain_separator, hash, dg_now>>)

\* the payload 0x19 0x01 || domain_separator || struct_hash, hashed
eip712_digest(domain_separator, hash) == keccak256(<<25, 1, domain_separator, hash>>)

\* LimitlessClobClient::compute_order_hash, lines 388-430
limitless_order_hash(o, chain_id, exchange_address) ==
    eip712_digest(
        compute_domain_separator("Limitless CTF Exchange", "1", chain_id, exchange_address),
        struct_hash(o.salt, o.maker, o.maker, "0x0", o.token_id, o.maker_amount,
                    o.taker_amount, 0, 0, o.fee_rate_bps, o.side, 0))

\* PredictFun: the order as the JSON value of lines 780-793, then
\* sign_order_eip712 and compute_struct_hash reading it back
predictfun_order_json(o) ==
    [salt |-> to_string(o.salt), maker |-> o.maker, signer |-> o.maker, taker |-> "0x0",
     tokenId |-> to_string(o.token_id), makerAmount |-> to_string(o.maker_amount),
     takerAmount |-> to_string(o.taker_amount), expiration |-> <<0>>, nonce |-> <<0>>,
     feeRateBps |-> to_string(o.fee_rate_bps), side |-> o.side, signatureType |-> 0]
predictfun_order_hash(o, chain_id, exchange_address) ==
    LET order == predictfun_order_json(o) IN
    eip712_digest(
        compute_domain_separator("predict.fun CTF Exchange", "1", chain_id, exchange_address),
        struct_hash(from_dec_str(order.salt), order.maker, order.signer, order.taker,
                    from_dec_str(order.tokenId), from_dec_str(order.makerAmount),
                    from_dec_str(order.takerAmount), from_dec_str(order.expiration),
                    from_dec_str(order.nonce), from_dec_str(order.feeRateBps),
                    order.side, order.signatureType))

InitDigest ==
    /\ dg_now = 0
    /\ dg_authenticated = FALSE
    /\ dg_log = <<>>

\* time passes
DigestTick ==
    /\ dg_now < MaxClock
    /\ dg_now' = dg_now + 1
    /\ UNCHANGED <<dg_authenticated, dg_log>>
    /\ UNCHANGED notDigest

\* the client's session state changes (authenticate, logout)
DigestSession ==
    /\ dg_authenticated' = ~dg_authenticated
    /\ UNCHANGED <<dg_now, dg_log>>
    /\ UNCHANGED notDigest

\* a digest is computed and recorded with its inputs
DigestRecord(venue, o, chain_id, exchange_address, digest) ==
    dg_log' = Append(dg_log,
        [inputs |-> <<venue, o, chain_id, exchange_address>>, digest |-> digest,
         at |-> dg_now, authenticated |-> dg_authenticated])

LimitlessDigest ==
    /\ Len(dg_log) < MaxDigests
    /\ \E o \in DigestOrders, chain_id \in ChainIds, exchange_address \in ExchangeAddresses :
        DigestRecord("limitless", o, chain_id, exchange_address,
                     limitless_order_hash(o, chain_id, exchange_address))
    /\ UNCHANGED <<dg_now, dg_authenticated>>
    /\ UNCHANGED notDigest

PredictFunDigest ==
    /\ Len(dg_log) < MaxDigests
    /\ \E o \in DigestOrders, chain_id \in ChainIds, exchange_address \in ExchangeAddresses :
        DigestRecord("predictfun", o, chain_id, exchange_address,
                     predictfun_order_hash(o, chain_id, exchange_address))
    /\ UNCHANGED <<dg_now, dg_authenticated>>
    /\ UNCHANGED notDigest

NextDigest == DigestTick \/ DigestSession \/ LimitlessDigest \/ PredictFunDigest

\* ------------------------------------- PolymarketWebSocket: the heartbeat
\* a heartbeat whose failure the session does not notice
PingIgnored(t) ==
    /\ t_pc[t] = "session"
    /\ write_tx = <<t, "first">>
    /\ Len(hb_failed) < MaxPingFails
    /\ hb_failed' = Append(hb_failed, t)
    /\ UNCHANGED hb_sent
    /\ UNCHANGED wsVars
    /\ UNCHANGED notPing

\* ping_future, lines 328-336, in the session opened by connect(): the ping is
\* queued on the session's own channel, write_future (line 308) forwards it to
\* the socket, the write fails, write_future completes and with it the select!
\* of lines 338-343
PingFails(t) ==
    /\ t_pc[t] = "session"
    /\ write_tx = <<t, "first">>
    /\ Len(hb_failed) < MaxPingFails
    /\ hb_failed' = Append(hb_failed, t)
    /\ UNCHANGED hb_sent
    /\ t_pc' = [t_pc EXCEPT ![t] = AfterSession("first")]
    /\ UNCHANGED <<state, subscriptions, orderbook_senders, write_tx, shutdown_tx,
                   reconnect_attempts, auto_reconnect, c_pc, c_arg, spawned,
                   t_attempt, closedCalled, t_fails, t_delay, outbox>>
    /\ UNCHANGED notPing

InitHB ==
    /\ hb_failed = <<>>
    /\ hb_sent = [t \in Tasks |-> 0]

\* the select! the task waits in has a ping_future: the one of lines 338-343
\* has, the one of lines 411-414 has only write_future and read_future
ping_future(t) == t_pc[t] = "session"

\* ping_future, lines 328-336: the interval ticks and a Ping is queued on the
\* channel in write_tx, if there is one
PingSend(t) ==
    /\ ping_future(t)
    /\ hb_sent' = [hb_sent EXCEPT ![t] =
                     IF write_tx # NoTx /\ @ < MaxPings THEN @ + 1 ELSE @]
    /\ UNCHANGED hb_failed
    /\ UNCHANGED wsVars
    /\ UNCHANGED notHB

\* connect(), disconnect() and the task, with the heartbeat timer ticking
NextHeartbeat ==
    \/ ConnectBegin \/ ConnectFail \/ ConnectOk \/ ConnectSpawn
    \/ ConnectSetConnected \/ ConnectReset \/ ConnectResub
    \/ Disconnect \/ DisconnectSend
    \/ \E t \in Tasks : reconnect_attempts <= MaxLosses /\ TaskStep(t)
    \/ \E t \in Tasks : PingSend(t)

\* the connection without subscribe and unsubscribe calls, with the heartbeat
NextPing ==
    \/ ConnectBegin \/ ConnectFail \/ ConnectOk \/ ConnectSpawn
    \/ ConnectSetConnected \/ ConnectReset \/ ConnectResub
    \/ Disconnect \/ DisconnectSend
    \/ \E t \in Tasks : TaskStep(t)
    \/ \E t \in Tasks : PingFails(t)

\* ------------------------------- PolymarketWebSocket: fan-out to subscribers
\* streams a consumer may hold
Receivers == 1..MaxReceivers

\* tokio::sync::broadcast channel as created at line 470: the values still
\* retained (at most BroadcastCapacity, the oldest is overwritten) and the
\* number of values stored so far
NewChannel == [buf |-> <<>>, tail |-> 0]

LastN(s, n) == IF Len(s) <= n THEN s ELSE SubSeq(s, Len(s) - n + 1, Len(s))

\* position of the oldest value a channel still retains
Oldest(chan) == chan.tail - Len(chan.buf)

\* a bounded queue whose send waits for the slowest receiver
broadcast_send_bounded(chan, item, nexts) ==
    IF nexts = {} THEN [chan |-> chan, waited |-> FALSE]
    ELSE IF Len(chan.buf) = BroadcastCapacity /\ \E n \in nexts : n <= Oldest(chan)
           THEN [chan |-> chan, waited |-> TRUE]
           ELSE [chan |-> [buf |-> LastN(Append(chan.buf, item), BroadcastCapacity),
                           tail |-> chan.tail + 1],
                 waited |-> FALSE]

\* line 231, `let _ = sender.send(Ok(orderbook))`: without receivers the value
\* is returned in an Err that is discarded; otherwise it is stored, overwriting
\* the oldest retained value when the buffer is full; nexts are the positions
\* of the channel's receivers, which send never consults
broadcast_send(chan, item, nexts) ==
    IF nexts = {} THEN [chan |-> chan, waited |-> FALSE]
    ELSE [chan |-> [buf |-> LastN(Append(chan.buf, item), BroadcastCapacity),
                    tail |-> chan.tail + 1],
          waited |-> FALSE]

\* a receive that hands out a value without advancing
recv_peek(chan, next, closed) ==
    IF next < Oldest(chan) THEN [kind |-> "lagged", item |-> None, next |-> Oldest(chan)]
    ELSE IF next < chan.tail
           THEN [kind |-> "value", item |-> chan.buf[next - Oldest(chan) + 1], next |-> next]
           ELSE [kind |-> IF closed THEN "closed" ELSE "pending", item |-> None, next |-> next]

\* what BroadcastStream (line 520) gets from the receiver at position next:
\* Lagged when values it had not read were overwritten (it continues at the
\* oldest retained one), the next value, the end of the stream once the
\* sender is gone and everything was read, or nothing yet
recv(chan, next, closed) ==
    IF next < Oldest(chan) THEN [kind |-> "lagged", item |-> None, next |-> Oldest(chan)]
    ELSE IF next < chan.tail
           THEN [kind |-> "value", item |-> chan.buf[next - Oldest(chan) + 1], next |-> next + 1]
           ELSE [kind |-> IF closed THEN "closed" ELSE "pending", item |-> None, next |-> next]

NoReceiver == [st |-> "none", asset |-> None, next |-> 0, chan |-> Nothing]

\* positions of the receivers attached to the sender registered for an asset
Nexts(rxs, a) == {rxs[r].next : r \in {x \in Receivers : rxs[x].st = "live" /\ rxs[x].asset = a}}

\* the calls of broadcast_orderbook one message makes, in order (out is what
\* the handler passes to the senders it finds)
RECURSIVE Deliver(_, _, _, _)
Deliver(chans, produced, out, rxs) ==
    IF out = <<>> THEN [chans |-> chans, produced |-> produced, waited |-> FALSE]
    ELSE LET a == Head(out).asset_id
             item == [n |-> Len(produced[a]) + 1, book |-> Head(out).book]
             s == broadcast_send(chans[a][1], item, Nexts(rxs, a))
             rest == Deliver([chans EXCEPT ![a] = Some(s.chan)],
                             [produced EXCEPT ![a] = Append(@, item.book)],
                             Tail(out), rxs)
         IN [chans |-> rest.chans, produced |-> rest.produced,
             waited |-> s.waited \/ rest.waited]

RECURSIVE SumLens(_, _)
SumLens(f, S) ==
    IF S = {} THEN 0
    ELSE LET a == CHOOSE x \in S : TRUE IN Len(f[a]) + SumLens(f, S \ {a})

TotalProduced == SumLens(fo_produced, Ids)

fanRest == <<lwsVars, lbookVars, restVars, trackerVars, rateVars, retryVars, amountVars,
    createVars, saltVars, digestVars, hbVars, bpVars, msgVars, fillVars, wideVars, sharedVars>>

wsButRegistry == <<state, write_tx, shutdown_tx, reconnect_attempts, auto_reconnect,
    c_pc, c_arg, spawned, t_pc, t_attempt, closedCalled, t_fails, t_delay>>

InitFan ==
    /\ fo_chan = [a \in Ids |-> IF a \in orderbook_senders THEN Some(NewChannel) ELSE Nothing]
    /\ fo_rx = [r \in Receivers |-> NoReceiver]
    /\ fo_produced = [a \in Ids |-> <<>>]
    /\ fo_yielded = [r \in Receivers |-> <<>>]
    /\ fo_waited = FALSE

\* subscribe, lines 459-488
FanSubscribe(id) ==
    /\ c_pc = "idle"
    /\ subscriptions' = subscriptions \cup {id}
    /\ orderbook_senders' = orderbook_senders \cup {id}
    /\ fo_chan' = IF id \in orderbook_senders THEN fo_chan
                  ELSE [fo_chan EXCEPT ![id] = Some(NewChannel)]
    /\ outbox' = IF state = "Connected" THEN send_message({id}) ELSE outbox
    /\ UNCHANGED <<wsButRegistry, pbookVars, fanRest>>
    /\ UNCHANGED <<fo_rx, fo_produced, fo_yielded, fo_waited>>

\* unsubscribe, lines 490-504: the sender is dropped, its receivers read what
\* the channel retains and then end
FanUnsubscribe(id) ==
    /\ c_pc = "idle"
    /\ subscriptions' = subscriptions \ {id}
    /\ orderbook_senders' = orderbook_senders \ {id}
    /\ orderbooks' = Remove(orderbooks, id)
    /\ fo_chan' = [fo_chan EXCEPT ![id] = Nothing]
    /\ fo_rx' = [r \in Receivers |->
                   IF fo_rx[r].st = "live" /\ fo_rx[r].asset = id
                     THEN [fo_rx[r] EXCEPT !.st = "closed", !.chan = fo_chan[id]]
                     ELSE fo_rx[r]]
    /\ UNCHANGED <<wsButRegistry, outbox, p_out, fanRest>>
    /\ UNCHANGED <<fo_produced, fo_yielded, fo_waited>>

\* orderbook_stream, lines 510-526, for a subscribed id: a new receiver that
\* sees the values sent from now on (for another id it returns Err)
OrderbookStream(r, id) ==
    /\ fo_rx[r].st = "none"
    /\ id \in orderbook_senders
    /\ fo_rx' = [fo_rx EXCEPT ![r] = [st |-> "live", asset |-> id,
                                      next |-> fo_chan[id][1].tail, chan |-> Nothing]]
    /\ UNCHANGED <<wsVars, pbookVars, fanRest>>
    /\ UNCHANGED <<fo_chan, fo_produced, fo_yielded, fo_waited>>

\* the messages the venue sends in this part of the model: one book and one
\* best-bid change, for the assets that have a sender (the others are the
\* matter of the book handlers above)
FanRawBids == {<<[price |-> Some(340), size |-> Some(2)]>>}
FanChanges ==
    {<<[asset_id |-> a, best_bid |-> Some(660), best_ask |-> Nothing]>> : a \in orderbook_senders}

\* the reader (lines 309-326) handles a "book" message: handle_book_message,
\* lines 125-184, and broadcast_orderbook, lines 228-233
FanBookMessage ==
    /\ TotalProduced < MaxProduced
    /\ \E a \in orderbook_senders, raw_bids \in FanRawBids :
        LET orderbook == [bids |-> ParseLevels(raw_bids), asks |-> ParseLevels(<<>>)]
            out == broadcast_orderbook(a, orderbook)
            d == Deliver(fo_chan, fo_produced, out, fo_rx)
        IN /\ orderbooks' = Insert(orderbooks, a, orderbook)
           /\ p_out' = out
           /\ fo_chan' = d.chans
           /\ fo_produced' = d.produced
           /\ fo_waited' = d.waited
    /\ UNCHANGED <<wsVars, fanRest, fo_rx, fo_yielded>>

\* the reader handles a "price_change" message: handle_price_change, lines
\* 186-226, and broadcast_orderbook
FanPriceChangeMessage ==
    /\ TotalProduced < MaxProduced
    /\ \E changes \in FanChanges :
        LET r == ApplyChanges(orderbooks, changes)
            d == Deliver(fo_chan, fo_produced, r.out, fo_rx)
        IN /\ orderbooks' = r.obs
           /\ p_out' = r.out
           /\ fo_chan' = d.chans
           /\ fo_produced' = d.produced
           /\ fo_waited' = d.waited
    /\ UNCHANGED <<wsVars, fanRest, fo_rx, fo_yielded>>

\* the channel a receiver reads: the registered one, or the one it kept
ChanOf(r) == IF fo_rx[r].st = "live" THEN fo_chan[fo_rx[r].asset][1] ELSE fo_rx[r].chan[1]

\* the consumer polls its stream: BroadcastStream::poll_next and the
\* filter_map of lines 520-524, which drops the Lagged error
StreamPoll(r) ==
    /\ fo_rx[r].st \in {"live", "closed"}
    /\ LET got == recv(ChanOf(r), fo_rx[r].next, fo_rx[r].st = "closed") IN
         /\ got.kind # "pending"
         /\ fo_rx' = [fo_rx EXCEPT ![r] =
                        IF got.kind = "closed" THEN [@ EXCEPT !.st = "ended", !.chan = Nothing]
                        ELSE [@ EXCEPT !.next = got.next]]
         /\ fo_yielded' = IF got.kind = "value"
                            THEN [fo_yielded EXCEPT ![r] = Append(@, got.item)]
                            ELSE fo_yielded
    /\ UNCHANGED <<wsVars, pbookVars, fanRest>>
    /\ UNCHANGED <<fo_chan, fo_produced, fo_waited>>

\* the consumer drops its stream (and what it got from it)
StreamDrop(r) ==
    /\ fo_rx[r].st \in {"live", "closed"}
    /\ fo_rx' = [fo_rx EXCEPT ![r] = [NoReceiver EXCEPT !.st = "dropped"]]
    /\ fo_yielded' = [fo_yielded EXCEPT ![r] = <<>>]
    /\ UNCHANGED <<wsVars, pbookVars, fanRest>>
    /\ UNCHANGED <<fo_chan, fo_produced, fo_waited>>

NextFan ==
    \/ \E id \in Ids : FanSubscribe(id)
    \/ \E id \in Ids : FanUnsubscribe(id)
    \/ \E r \in Receivers, id \in Ids : OrderbookStream(r, id)
    \/ FanBookMessage
    \/ FanPriceChangeMessage
    \/ \E r \in Receivers : StreamPoll(r)
    \/ \E r \in Receivers : StreamDrop(r)

\* ---------------------------------------- best-price messages, both venues
\* everything but a venue's books and the record of the latest message
notPBookBP == <<wsVars, lwsVars, lbookVars, restVars, trackerVars, rateVars, retryVars,
    amountVars, createVars, saltVars, digestVars, hbVars, fanVars, msgVars, fillVars, wideVars, sharedVars>>
notLBookBP == <<wsVars, lwsVars, pbookVars, restVars, trackerVars, rateVars, retryVars,
    amountVars, createVars, saltVars, digestVars, hbVars, fanVars, msgVars, fillVars, wideVars, sharedVars>>

NoMessage == [venue |-> "none", asset |-> None, bid |-> Nothing, ask |-> Nothing]

InitBP == bp_in = NoMessage

\* a book with two bid levels, as a snapshot leaves it
DeepBook ==
    [bids |-> <<PriceLevel(660, 2), PriceLevel(340, 2)>>, asks |-> <<>>]

\* the Polymarket reader receives a "price_change" message with one entry:
\* handle_price_change, lines 186-226
PBestPrice ==
    \E ch \in PriceChanges :
        LET r == ApplyChanges(orderbooks, <<ch>>) IN
          /\ orderbooks' = r.obs
          /\ p_out' = r.out
          /\ bp_in' = [venue |-> "polymarket", asset |-> ch.asset_id,
                       bid |-> ch.best_bid, ask |-> ch.best_ask]
    /\ UNCHANGED notPBookBP

\* the Limitless "newPriceData" handler with an address and prices:
\* handle_price_update, lines 212-257; the ask it derives from the no price
\* is the addressed ask price
LBestPrice ==
    \E addr \in Ids, pr \in [yes : RawPrices, no : RawPrices] :
        LET yes_price == unwrap_or(pr.yes, 0)
            no_price == unwrap_or(pr.no, 0)
            orderbook == PriceUpdateBook(yes_price, no_price)
        IN /\ IF yes_price <= 0 /\ no_price <= 0
                THEN UNCHANGED l_orderbooks /\ l_out' = <<>>
                ELSE /\ l_orderbooks' = Insert(l_orderbooks, addr, orderbook)
                     /\ l_out' = LBroadcast(addr, orderbook)
           /\ bp_in' = [venue |-> "limitless", asset |-> addr,
                        bid |-> IF yes_price > 0 THEN Some(yes_price) ELSE Nothing,
                        ask |-> IF no_price > 0 THEN Some(One - no_price) ELSE Nothing]
    /\ UNCHANGED notLBookBP

NextBestPrice == PBestPrice \/ LBestPrice

\* --------------------------- PolymarketWebSocket: the reader and its texts
\* everything but the connection, the Polymarket books and the reader's log
msgRest == <<lwsVars, lbookVars, restVars, trackerVars, rateVars, retryVars, amountVars,
    createVars, saltVars, digestVars, hbVars, fanVars, bpVars, fillVars, wideVars, sharedVars>>

\* a text frame: whether it is JSON of the shape of WsMessage (lines 26-34),
\* and the fields it carries
WsMessages ==
    [event_type : {Nothing, Some("book"), Some("price_change"), Some("other")},
     asset_id : {Nothing, Some(1)},
     bids : {Nothing, Some(<<[price |-> Some(340), size |-> Some(2)]>>)},
     price_changes : {Nothing,
                      Some(<<[asset_id |-> 1, best_bid |-> Some(660), best_ask |-> Nothing]>>)}]

WsTexts == [json : BOOLEAN, msg : WsMessages]

\* a parser that accepts every text
from_str_lenient(text) == Some(text.msg)

\* serde_json::from_str::<WsMessage>, line 113
from_str(text) == IF text.json THEN Some(text.msg) ELSE Nothing

\* handle_message, lines 112-123, with the handlers it dispatches to
\* (lines 125-184 and 186-226), on the cached books obs
handle_message(obs, text) ==
    LET parsed == from_str(text)
        skipped == [obs |-> obs, out |-> <<>>]
    IN IF parsed = Nothing THEN skipped
       ELSE LET msg == parsed[1] IN
         IF msg.event_type = Some("book")
           THEN IF msg.asset_id = Nothing THEN skipped
                ELSE LET orderbook == [bids |-> ParseLevels(unwrap_or(msg.bids, <<>>)),
                                       asks |-> ParseLevels(<<>>)]
                     IN [obs |-> Insert(obs, msg.asset_id[1], orderbook),
                         out |-> broadcast_orderbook(msg.asset_id[1], orderbook)]
         ELSE IF msg.event_type = Some("price_change")
           THEN IF msg.price_changes = Nothing THEN skipped
                ELSE ApplyChanges(obs, msg.price_changes[1])
         ELSE skipped

InitMsg == pm_log = <<>>

\* read_future, lines 309-326 and 391-409: the next frame is a text
ReadText(t) ==
    /\ t_pc[t] \in {"session", "r_session"}
    /\ Len(pm_log) < MaxMessages
    /\ \E text \in WsTexts :
        LET r == handle_message(orderbooks, text) IN
          /\ orderbooks' = r.obs
          /\ p_out' = r.out
          /\ pm_log' = Append(pm_log, text)
    /\ UNCHANGED wsVars
    /\ UNCHANGED msgRest

NextMessages ==
    \/ \E t \in Tasks : ReadText(t)
    \/ \E t \in Tasks : reconnect_attempts <= MaxLosses /\ TaskStep(t)

\* ----------------------------------------- OrderTracker: the price of a fill
\* everything but the tracker and the record of fill prices
fillRest == <<wsVars, lwsVars, pbookVars, lbookVars, restVars, rateVars, retryVars,
    amountVars, createVars, saltVars, digestVars, hbVars, fanVars, bpVars, msgVars, wideVars, sharedVars>>

InitFill == ft_price = [id \in Ids |-> Nothing]

\* the orders the tracker holds before the fills
FillOrders ==
    [id : Ids, market_id : {"m"}, outcome : {"Yes"}, price : {500}, size : {MaxSize},
     filled : {0}, status : {"Open"}, side : {"Buy", "Sell"},
     created_at : {Nothing, Some(1)}]

\* handle_trade called with a fill price, which is recorded for a tracked id
FillTrade(t) ==
    \E id \in Ids, fill_size \in 1..MaxFill, fill_price \in FillPrices :
        /\ handle_trade(t, id, fill_size, fill_price, Nothing, Nothing)
        /\ ft_price' = IF id \in DOMAIN tracked_orders
                         THEN [ft_price EXCEPT ![id] = Some(fill_price)]
                         ELSE ft_price
        /\ UNCHANGED fillRest

NextFills == FillTrade(1) \/ TradeEmit(1) \/ TradeUntrack(1)

\* ------------------------------ Limitless amounts in the widths of the code
\* unsigned integers are little-endian sequences of bytes: u64 has 8, u128 16
Base == 256
U64Bytes == 8
U128Bytes == 16

RECURSIVE ToBytes(_, _)
ToBytes(n, len) == IF len = 0 THEN <<>> ELSE <<n % Base>> \o ToBytes(n \div Base, len - 1)

\* the value without its leading zero bytes
RECURSIVE Strip(_)
Strip(x) ==
    IF x = <<>> THEN <<>>
    ELSE IF x[Len(x)] = 0 THEN Strip(SubSeq(x, 1, Len(x) - 1)) ELSE x

\* x as a value of len bytes: the low bytes, as a narrowing cast or a wrapping
\* operation keeps them
Low(x, len) == [i \in 1..len |-> IF i <= Len(x) THEN x[i] ELSE 0]
Fits(x, len) == Len(Strip(x)) <= len

RECURSIVE Carry(_, _)
Carry(cols, c) ==
    IF cols = <<>>
      THEN IF c = 0 THEN <<>> ELSE <<c % Base>> \o Carry(<<>>, c \div Base)
      ELSE <<(Head(cols) + c) % Base>> \o Carry(Tail(cols), (Head(cols) + c) \div Base)

RECURSIVE ColSum(_, _, _, _)
ColSum(a, b, k, i) ==
    IF i > Len(a) THEN 0
    ELSE (IF k - i + 1 \in 1..Len(b) THEN a[i] * b[k - i + 1] ELSE 0) + ColSum(a, b, k, i + 1)

\* the mathematical product, sum and difference
Mul(a, b) == Carry([k \in 1..(Len(a) + Len(b)) |-> ColSum(a, b, k, 1)], 0)
Add(a, b) ==
    Carry([k \in 1..(IF Len(a) > Len(b) THEN Len(a) ELSE Len(b)) |->
             (IF k <= Len(a) THEN a[k] ELSE 0) + (IF k <= Len(b) THEN b[k] ELSE 0)], 0)

\* x - 1 for x > 0
RECURSIVE Pred(_)
Pred(x) == IF Head(x) > 0 THEN <<Head(x) - 1>> \o Tail(x) ELSE <<Base - 1>> \o Pred(Tail(x))

\* x / d for a divisor below 2^16: the quotient, from the top byte down
RECURSIVE DivRec(_, _, _)
DivRec(x, d, r) ==
    IF x = <<>> THEN <<>>
    ELSE LET cur == r * Base + x[Len(x)] IN
           DivRec(SubSeq(x, 1, Len(x) - 1), d, cur % d) \o <<cur \div d>>
DivSmall(x, d) == DivRec(x, d, 0)

\* x / 10^12, as four divisions by 1000 (floor division composes)
DivDenominator(x) == DivSmall(DivSmall(DivSmall(DivSmall(x, 1000), 1000), 1000), 1000)

\* a multiplication whose intermediate has the width of the operands
u64_mul(a, b) == [v |-> Low(Mul(a, b), U64Bytes), overflow |-> ~Fits(Mul(a, b), U64Bytes)]

\* u128 * u128, line 320: the low 128 bits, and whether the product exceeds them
u128_mul(a, b) == [v |-> Low(Mul(a, b), U128Bytes), overflow |-> ~Fits(Mul(a, b), U128Bytes)]

\* u128 + u128, line 326
u128_add(a, b) == [v |-> Low(Add(a, b), U128Bytes), overflow |-> ~Fits(Add(a, b), U128Bytes)]

\* `as u64` on a u128, lines 326 and 332: the low 64 bits
as_u64(x) == Low(x, U64Bytes)

\* lines 306-310 and 321: the scale factors and the denominator
WideScale == ToBytes(1000000, U128Bytes)
WideDenominator == Low(Mul(ToBytes(1000000, 4), ToBytes(1000000, 4)), U128Bytes)

\* scaled share counts that fit u64: small ones, 2^32, 2^53, 10^18, 2^63 and
\* the largest binary64 value below 2^64
WideShares ==
    { ToBytes(999, U64Bytes), ToBytes(1000, U64Bytes), ToBytes(1000999, U64Bytes),
      <<0, 0, 0, 0, 1, 0, 0, 0>>,
      <<0, 0, 0, 0, 0, 0, 32, 0>>,
      <<0, 0, 100, 167, 179, 182, 224, 13>>,
      <<0, 0, 0, 0, 0, 0, 0, 128>>,
      <<0, 248, 255, 255, 255, 255, 255, 255>> }

\* price_int of the prices in (0, 1)
WidePrices == {1, 999, 1000, 333333, 500000, 999000, 999999}

InitWide ==
    /\ wa_pc = "none"
    /\ wa_side = "Buy"
    /\ wa_scaled = ToBytes(0, U64Bytes)
    /\ wa_price_int = 0
    /\ wa_maker = ToBytes(0, U64Bytes)
    /\ wa_taker = ToBytes(0, U64Bytes)
    /\ wa_overflow = FALSE

\* build_signed_order, lines 313-335
WideBuild ==
    /\ wa_pc = "called"
    /\ wa_pc' = "returned"
    /\ LET scaled == wa_scaled
           p == wa_price_int
           side == wa_side
           price_int == ToBytes(p, U64Bytes)
           aligned == u64_mul(Low(DivSmall(scaled, shares_step), U64Bytes),
                              ToBytes(shares_step, U64Bytes))
           shares == aligned.v
           m1 == u128_mul(Low(shares, U128Bytes), Low(price_int, U128Bytes))
           numerator == u128_mul(m1.v, WideScale)
           plus == u128_add(numerator.v, Pred(WideDenominator))
           up == as_u64(DivDenominator(plus.v))
           down == as_u64(DivDenominator(numerator.v))
       IN /\ UNCHANGED <<wa_scaled, wa_price_int, wa_side>>
          /\ wa_maker' = IF side = "Buy" THEN up ELSE shares
          /\ wa_taker' = IF side = "Buy" THEN shares ELSE down
          /\ wa_overflow' = (aligned.overflow \/ m1.overflow \/ numerator.overflow
                               \/ (side = "Buy" /\ plus.overflow))
    /\ UNCHANGED notWide

NextWide == WideBuild

\* --------------------------- a RateLimiter shared by the tasks of a client
\* everything but the limiter and its callers
sharedRest == <<wsVars, lwsVars, pbookVars, lbookVars, restVars, trackerVars, retryVars,
    amountVars, createVars, saltVars, digestVars, hbVars, fanVars, bpVars, msgVars, fillVars,
    wideVars>>

\* what the callers' steps leave alone of the single caller's record
rateLocals == <<rl_rate, min_interval, rl_pc, rl_wake_at, rl_elapsed, rl_sleep>>

Callers == 1..MaxCallers

InitShared ==
    /\ sh_pc = [t \in Callers |-> "idle"]
    /\ sh_wake_at = [t \in Callers |-> 0]
    /\ sh_queue = <<>>

\* the callers inside rate_limit(), and those that have not yet read the clock
InFlight == {t \in Callers : sh_pc[t] # "idle"}
NotYetTimed == {t \in Callers : sh_pc[t] \in {"queued", "wait"}}
LockHeld == \E t \in Callers : sh_pc[t] \in {"wait", "sleeping", "stamp"}

\* rate_limit(), exchange.rs line 62: a task calls self.rate_limiter.lock();
\* calls begin while the clock leaves them the time to finish
ShCall(t) ==
    /\ sh_pc[t] = "idle"
    /\ Len(rl_done) + Cardinality(InFlight) < MaxWaits
    /\ rl_now + min_interval * (Cardinality(InFlight) + 1) <= MaxTime
    /\ sh_pc' = [sh_pc EXCEPT ![t] = "queued"]
    /\ sh_queue' = Append(sh_queue, t)
    /\ UNCHANGED <<sh_wake_at, rateVars>>
    /\ UNCHANGED sharedRest

\* a lock that is granted while another task holds it
ShAcquireUnlocked(t) ==
    /\ sh_queue # <<>> /\ Head(sh_queue) = t
    /\ sh_pc' = [sh_pc EXCEPT ![t] = "wait"]
    /\ sh_queue' = Tail(sh_queue)
    /\ UNCHANGED <<sh_wake_at, rateVars>>
    /\ UNCHANGED sharedRest

\* tokio::sync::Mutex::lock: granted in the order of the calls, to one task
\* at a time; the guard lives until wait() has returned
ShAcquire(t) ==
    /\ sh_queue # <<>> /\ Head(sh_queue) = t
    /\ ~LockHeld
    /\ sh_pc' = [sh_pc EXCEPT ![t] = "wait"]
    /\ sh_queue' = Tail(sh_queue)
    /\ UNCHANGED <<sh_wake_at, rateVars>>
    /\ UNCHANGED sharedRest

\* wait, rate_limit.rs lines 24-28, by the task that holds the lock
ShWait(t) ==
    /\ sh_pc[t] = "wait"
    /\ LET elapsed == rl_now - last_request IN
         IF elapsed < min_interval
           THEN /\ sh_wake_at' = [sh_wake_at EXCEPT ![t] = rl_now + wait_time(elapsed, min_interval)]
                /\ sh_pc' = [sh_pc EXCEPT ![t] = "sleeping"]
           ELSE /\ sh_wake_at' = [sh_wake_at EXCEPT ![t] = rl_now]
                /\ sh_pc' = [sh_pc EXCEPT ![t] = "stamp"]
    /\ UNCHANGED <<sh_queue, rateVars>>
    /\ UNCHANGED sharedRest

\* line 27: the sleep is over
ShWake(t) ==
    /\ sh_pc[t] = "sleeping"
    /\ rl_now >= sh_wake_at[t]
    /\ sh_pc' = [sh_pc EXCEPT ![t] = "stamp"]
    /\ UNCHANGED <<sh_wake_at, sh_queue, rateVars>>
    /\ UNCHANGED sharedRest

\* line 29 and exchange.rs line 62: last_request = Instant::now(), wait()
\* returns, the guard is dropped and the task goes on to its request
ShStamp(t) ==
    /\ sh_pc[t] = "stamp"
    /\ last_request' = rl_now
    /\ rl_done' = Append(rl_done, rl_now)
    /\ sh_pc' = [sh_pc EXCEPT ![t] = "idle"]
    /\ UNCHANGED <<sh_wake_at, sh_queue, rl_now>>
    /\ UNCHANGED rateLocals
    /\ UNCHANGED sharedRest

\* time passes, leaving the calls in flight the time to finish
ShTick ==
    /\ rl_now + 1 + min_interval * Cardinality(NotYetTimed) <= MaxTime
    /\ rl_now' = rl_now + 1
    /\ UNCHANGED <<last_request, rl_done>>
    /\ UNCHANGED rateLocals
    /\ UNCHANGED <<sh_pc, sh_wake_at, sh_queue>>
    /\ UNCHANGED sharedRest

NextShared ==
    \/ ShTick
    \/ \E t \in Callers : ShCall(t)
    \/ \E t \in Callers : ShAcquire(t)
    \/ \E t \in Callers : ShWait(t)
    \/ \E t \in Callers : ShWake(t)
    \/ \E t \in Callers : ShStamp(t)

Init == InitWS /\ InitLWS /\ InitPBook /\ InitLBook /\ InitRest /\ InitTracker /\ InitRate /\ InitRetry
    /\ InitAmount
    /\ InitShared
    /\ InitWide
    /\ InitFill
    /\ InitMsg
    /\ InitBP
    /\ InitFan
    /\ InitHB
    /\ InitDigest
    /\ InitSalt
    /\ InitCreate

\* the Polymarket connection: caller and spawned tasks
SpecWS == Init /\ [][NextWS]_vars

\* the Limitless connection: caller, transport and socket event handlers
SpecLWS == Init /\ [][NextLWS]_vars

\* the Polymarket client after connect() and subscribe(1)
InitWSConnected ==
    /\ subscriptions = {1}
    /\ orderbook_senders = {1}
    /\ state = "Connected"
    /\ write_tx = <<1, "first">>
    /\ shutdown_tx = 1
    /\ reconnect_attempts = 0
    /\ auto_reconnect = TRUE
    /\ c_pc = "idle"
    /\ c_arg = None
    /\ spawned = 1
    /\ t_pc = [t \in Tasks |-> IF t = 1 THEN "session" ELSE "unborn"]
    /\ t_attempt = [t \in Tasks |-> 0]
    /\ closedCalled = FALSE
    /\ t_fails = [t \in Tasks |-> 0]
    /\ t_delay = [t \in Tasks |-> None]
    /\ outbox = subscriptions

\* the Limitless client after connect() and subscribe(1)
InitLWSConnected ==
    /\ l_state = "Connected"
    /\ l_slugs = {1}
    /\ l_addresses = {}
    /\ l_senders = {1}
    /\ l_client = TRUE
    /\ l_pc = "idle"
    /\ l_arg = None
    /\ l_up = TRUE
    /\ l_events = <<>>
    /\ l_venueSubs = [slugs |-> {1}, addresses |-> {}]

\* the Polymarket book handlers on a connected client; asset 1 is subscribed,
\* the other assets are not
InitPBookAny ==
    /\ InitLWS /\ InitPBook /\ InitLBook /\ InitRest /\ InitTracker /\ InitRate /\ InitRetry
    /\ InitAmount
    /\ InitShared
    /\ InitWide
    /\ InitFill
    /\ InitMsg
    /\ InitBP
    /\ InitHB
    /\ InitDigest
    /\ InitSalt
    /\ InitCreate
    /\ auto_reconnect = TRUE
    /\ InitWSConnected
    /\ InitFan

SpecPBook == InitPBookAny /\ [][NextPBook]_vars

\* the Limitless socket handlers for order books on a connected client; market 1
\* is subscribed, the other markets are not
InitLBookAny ==
    /\ InitWS /\ InitPBook /\ InitLBook /\ InitRest /\ InitTracker /\ InitRate /\ InitRetry
    /\ InitAmount
    /\ InitShared
    /\ InitWide
    /\ InitFill
    /\ InitMsg
    /\ InitBP
    /\ InitFan
    /\ InitHB
    /\ InitDigest
    /\ InitSalt
    /\ InitCreate
    /\ auto_reconnect = TRUE
    /\ InitLWSConnected

SpecLBook == InitLBookAny /\ [][NextLBook]_vars

\* the Limitless REST order book
InitRestAny == Init /\ auto_reconnect = TRUE

SpecRest == InitRestAny /\ [][NextRest]_vars

\* the OrderTracker used from one thread
SpecTracker == InitRestAny /\ [][NextTracker]_vars

\* the OrderTracker used from one thread whose callbacks call back into it
SpecReentry == InitRestAny /\ [][NextReentry]_vars

\* a RateLimiter and its caller, with time passing
SpecRate == InitRestAny /\ [][NextRate]_vars

\* calls of retry_with_backoff, one after the other
SpecRetry == InitRestAny /\ [][NextRetry]_vars

\* the three order builders, called with every size, price and side
SpecAmount == InitRestAny /\ [][NextAmount]_vars

\* create_order and the signing entry points, called with any price and size
SpecCreate == InitRestAny /\ [][NextCreate]_vars

\* one client per venue building orders while the millisecond clock runs
SpecSalt == InitRestAny /\ [][NextSalt]_vars

\* order digests computed at different times and in different client states
SpecDigest == InitRestAny /\ [][NextDigest]_vars

\* the Polymarket connection and its heartbeat
SpecPing == Init /\ [][NextPing]_vars

\* one session of a connected Polymarket client: the reader fans books out to
\* the streams of its consumers
InitFanAny == InitPBookAny

SpecFan == InitFanAny /\ [][NextFan]_vars

\* the Polymarket reader receiving snapshot ("book") messages only
NextSnapshot == PBookMessage

SpecSnapshot == InitPBookAny /\ [][NextSnapshot]_vars

\* both clients connected and subscribed to id 1, which has no cached book
\* yet or a two-level one; the venues send best-price messages
InitBestPriceAny ==
    /\ InitWSConnected /\ InitLWSConnected
    /\ InitRest /\ InitTracker /\ InitRate /\ InitRetry /\ InitAmount /\ InitCreate
    /\ InitSalt /\ InitDigest /\ InitHB /\ InitBP /\ InitMsg /\ InitFill /\ InitWide /\ InitShared
    /\ orderbooks \in {EmptyMap, Insert(EmptyMap, 1, DeepBook)}
    /\ p_out = <<>>
    /\ l_orderbooks \in {EmptyMap, Insert(EmptyMap, 1, DeepBook)}
    /\ l_out = <<>>
    /\ InitFan

SpecBestPrice == InitBestPriceAny /\ [][NextBestPrice]_vars

\* a connected client with a consumer: the consumer opens its stream on the
\* session connect() opened, the session is lost and the task reconnects,
\* the venue sends books on the sessions the reconnect loop establishes;
\* subscribe / unsubscribe of asset 2 and disconnect() may come at any time
NextRegistry ==
    \/ \E t \in Tasks : reconnect_attempts <= MaxLosses /\ TaskStep(t)
    \/ Disconnect
    \/ DisconnectSend
    \/ FanSubscribe(2)
    \/ FanUnsubscribe(2)
    \/ (t_pc[1] = "session" /\ OrderbookStream(1, 1))
    \/ ((\E t \in Tasks : t_pc[t] = "r_session") /\ FanBookMessage)
    \/ ((\E t \in Tasks : t_pc[t] = "r_session") /\ FanPriceChangeMessage)
    \/ StreamPoll(1)

SpecRegistry == InitFanAny /\ [][NextRegistry]_vars

\* the reader of a connected client, subscribed to asset 1, across sessions
InitMessages ==
    /\ InitLWS /\ InitPBook /\ InitLBook /\ InitRest /\ InitTracker /\ InitRate /\ InitRetry
    /\ InitAmount /\ InitCreate /\ InitSalt /\ InitDigest /\ InitHB /\ InitBP /\ InitMsg /\ InitFill /\ InitWide /\ InitShared
    /\ InitWSConnected
    /\ InitFan

SpecMessages == InitMessages /\ [][NextMessages]_vars

\* an OrderTracker with one callback that holds an order for every id; only
\* fills arrive
InitFills ==
    /\ InitWS /\ InitLWS /\ InitPBook /\ InitLBook /\ InitRest /\ InitRate /\ InitRetry
    /\ InitAmount /\ InitCreate /\ InitSalt /\ InitDigest /\ InitHB /\ InitBP /\ InitMsg /\ InitFill /\ InitWide /\ InitShared
    /\ auto_reconnect = TRUE
    /\ InitFan
    /\ \E o1, o2 \in FillOrders :
        /\ o1.id = 1 /\ o2.id = 2
        /\ tracked_orders = Insert(Insert(EmptyMap, 1, TrackedOrder_new(o1)),
                                   2, TrackedOrder_new(o2))
    /\ callbacks = 1
    /\ o_pc = [t \in Threads |-> "idle"]
    /\ o_op = [t \in Threads |-> "none"]
    /\ o_id = [t \in Threads |-> None]
    /\ o_fill = [t \in Threads |-> 0]
    /\ o_found = [t \in Threads |-> Nothing]
    /\ o_event = [t \in Threads |-> NoEvent]
    /\ o_calls = [t \in Threads |-> <<>>]
    /\ re_stack = <<>>
    /\ cb_readers = 0

SpecFills == InitFills /\ [][NextFills]_vars

\* the Limitless builder called once, with a share count up to the top of u64
InitWideAny ==
    /\ InitWS /\ InitLWS /\ InitPBook /\ InitLBook /\ InitRest /\ InitTracker /\ InitRate
    /\ InitRetry /\ InitAmount /\ InitCreate /\ InitSalt /\ InitDigest /\ InitHB /\ InitBP
    /\ InitMsg /\ InitFill /\ InitShared
    /\ auto_reconnect = TRUE
    /\ InitFan
    /\ wa_pc = "called"
    /\ wa_scaled \in WideShares
    /\ wa_price_int \in WidePrices
    /\ wa_side \in Sides
    /\ wa_maker = ToBytes(0, U64Bytes)
    /\ wa_taker = ToBytes(0, U64Bytes)
    /\ wa_overflow = FALSE

SpecWide == InitWideAny /\ [][NextWide]_vars

\* subscribe and unsubscribe calls on a connected client while the venue sends
\* book and price messages for any asset
NextCache ==
    \/ \E id \in Ids : Subscribe(id)
    \/ SubscribeSenders \/ SubscribeSend
    \/ \E id \in Ids : Unsubscribe(id)
    \/ UnsubscribeSenders \/ UnsubscribeBooks
    \/ \E id \in Ids, raw_bids \in SeqUpTo({[price |-> Some(340), size |-> Some(2)]}, 1) :
            handle_book_message(Some(id), raw_bids, <<>>)
    \/ \E id \in Ids :
            handle_price_change(Some(<<[asset_id |-> id, best_bid |-> Some(660),
                                        best_ask |-> Nothing]>>))

SpecCache == InitPBookAny /\ [][NextCache]_vars

\* two threads call handle_trade and handle_cancel on an OrderTracker that
\* holds an order for every id; no order is tracked again
NextConcurrent ==
    \/ \E t \in Threads, id \in Ids, fill_size \in 1..MaxFill :
          /\ handle_trade(t, id, fill_size, 400, Nothing, Nothing)
          /\ UNCHANGED notTracker
    \/ \E t \in Threads : TradeEmit(t)
    \/ \E t \in Threads : TradeUntrack(t)
    \/ \E t \in Threads : HandleCancel(t)
    \/ \E t \in Threads : CancelEmit(t)
    \/ \E t \in Threads : CancelUntrack(t)

SpecConcurrent == InitFills /\ [][NextConcurrent]_vars

\* the Polymarket connection with its heartbeat timer
SpecHeartbeat == Init /\ [][NextHeartbeat]_vars

\* a client whose limiter was built at time 0 with any rate, and its tasks; a
\* task that can take a step takes it in the end, and time does not stop
\* while a task sleeps
InitSharedAny ==
    /\ InitWS /\ InitLWS /\ InitPBook /\ InitLBook /\ InitRest /\ InitTracker /\ InitRetry
    /\ InitAmount /\ InitCreate /\ InitSalt /\ InitDigest /\ InitHB /\ InitBP /\ InitMsg /\ InitFill /\ InitWide
    /\ InitShared
    /\ auto_reconnect = TRUE
    /\ InitFan
    /\ rl_now = 0
    /\ rl_rate \in Rates
    /\ min_interval = new_min_interval(rl_rate)
    /\ last_request = rl_now - min_interval
    /\ rl_pc = "idle"
    /\ rl_wake_at = 0
    /\ rl_elapsed = 0
    /\ rl_sleep = 0
    /\ rl_done = <<>>

SpecShared ==
    /\ InitSharedAny /\ [][NextShared]_vars
    /\ WF_vars(ShTick)
    /\ \A t \in Callers :
        WF_vars(ShAcquire(t)) /\ WF_vars(ShWait(t)) /\ WF_vars(ShWake(t)) /\ WF_vars(ShStamp(t))

\* ====================================================================
\* Claims
\* ====================================================================

\* C1: once disconnect() has been called (and until connect() is called again),
\* no task starts another transport connection attempt: no step performs the
\* connect_async call of the reconnect loop.
C1_NoReconnectAfterDisconnect ==
    [][closedCalled =>
         \A t \in Tasks : ~(t_pc[t] = "attempt" /\ t_pc'[t] # "attempt")]_vars

\* C2: Closed is terminal: when the state is Closed, the only step that changes
\* it is the caller's own connect() (which sets Connecting); no task step
\* overwrites Closed with Reconnecting, Connected or Disconnected.
C2_ClosedIsTerminal ==
    [][state = "Closed" /\ state' # "Closed" =>
         c_pc = "idle" /\ c_pc' = "conn_attempt" /\ state' = "Connecting"]_vars

\* C3: whenever the connection is Connected and settled (no call and no
\* socket event in progress), the venue has received, on the current transport
\* connection, a subscribe message covering every entry of the subscription
\* registry: every (re)connection replays the whole registry.
C3_ReplayOnEveryConnected ==
    (l_state = "Connected" /\ l_up /\ l_pc = "idle" /\ l_events = <<>>) =>
        (l_slugs \subseteq l_venueSubs.slugs /\ l_addresses \subseteq l_venueSubs.addresses)

\* C4: a reconnect loop in which every attempt fails stops after exactly
\* MAX_RECONNECT_ATTEMPTS connection attempts and leaves the state Disconnected.
C4_ExactlyMaxAttempts ==
    [][\A t \in Tasks :
         t_pc[t] # "exhausted" /\ t_pc'[t] = "exhausted" =>
            t_fails[t] = MAX_RECONNECT_ATTEMPTS /\ state' = "Disconnected"]_vars

\* C5: the backoff slept before a reconnect attempt is
\* min(3000 * 1.5^n, 60000) ms, n being the number of failed reconnect attempts
\* since the last successful connection (0 for the first attempt).
C5_BackoffDelay ==
    \A t \in Tasks :
        t_delay[t] # None =>
            t_delay[t] = Min((3000 * Pow(3, t_fails[t])) \div Pow(2, t_fails[t]), 60000)

\* every order book the clients hold or hand out, as bids / asks records
AllBooks ==
    {orderbooks[a] : a \in DOMAIN orderbooks}
    \cup {p_out[i].book : i \in 1..Len(p_out)}
    \cup {l_orderbooks[m] : m \in DOMAIN l_orderbooks}
    \cup {l_out[i].book : i \in 1..Len(l_out)}
    \cup {[bids |-> rest_result[i].bids, asks |-> rest_result[i].asks] : i \in 1..Len(rest_result)}

IsSortedDesc(levels) == \A i \in 1..(Len(levels) - 1) : levels[i].price >= levels[i + 1].price
IsSortedAsc(levels) == \A i \in 1..(Len(levels) - 1) : levels[i].price <= levels[i + 1].price

\* C6: every cached or broadcast order book has its bids in non-increasing
\* price order and its asks in non-decreasing price order, after any sequence
\* of snapshot and best-price messages.
C6_BooksSorted ==
    \A b \in AllBooks : IsSortedDesc(b.bids) /\ IsSortedAsc(b.asks)

\* C7: no cached, returned or broadcast order book contains a level whose
\* price is <= 0 or whose size is <= 0.
C7_NoNonPositiveLevel ==
    \A b \in AllBooks :
        /\ \A i \in 1..Len(b.bids) : b.bids[i].price > 0 /\ b.bids[i].size > 0
        /\ \A i \in 1..Len(b.asks) : b.asks[i].price > 0 /\ b.asks[i].size > 0

\* how often level l occurs in levels
Occurrences(levels, l) == Cardinality({i \in 1..Len(levels) : levels[i] = l})

\* derived is exactly the levels of canonical with every price p turned into 1 - p
IsInversionOf(derived, canonical) ==
    /\ Len(derived) = Len(canonical)
    /\ \A i \in 1..Len(canonical) :
        LET l == PriceLevel(One - canonical[i].price, canonical[i].size)
        IN Occurrences(derived, l) = Occurrences(canonical, canonical[i])

\* C8: the book get_orderbook returns for a registered "No" token has a bid
\* (1-p, s) for every canonical ask (p, s), an ask (1-p, s) for every canonical
\* bid (p, s), no other levels, bids sorted descending and asks ascending.
C8_InvertedBook ==
    (rest_result # Nothing /\ rest_canonical[1].is_no_token) =>
        /\ IsInversionOf(rest_result[1].bids, rest_canonical[1].asks)
        /\ IsInversionOf(rest_result[1].asks, rest_canonical[1].bids)
        /\ IsSortedDesc(rest_result[1].bids)
        /\ IsSortedAsc(rest_result[1].asks)

\* C9: the cumulative filled quantity recorded for a tracked order, and the
\* filled field of every order snapshot passed to a callback, never exceeds
\* the order's size.
C9_FilledWithinSize ==
    /\ \A id \in DOMAIN tracked_orders :
        /\ tracked_orders[id].total_filled <= tracked_orders[id].order.size
        /\ tracked_orders[id].order.filled <= tracked_orders[id].order.size
    /\ \A t \in Threads : \A i \in 1..Len(o_calls[t]) :
        o_calls[t][i].order.filled <= o_calls[t][i].order.size

\* C10: when handle_trade or handle_cancel has returned from a call on a
\* tracked id, every registered callback was invoked exactly once, in order:
\* with PartialFill and the order still tracked when the cumulative fill is
\* below the size, with Filled and the order no longer tracked when it has
\* reached the size, with Cancelled and the order no longer tracked for
\* handle_cancel.
C10_OneEventPerCall ==
    \A t \in Threads :
        (o_pc[t] = "idle" /\ o_found[t] # Nothing) =>
            LET before == o_found[t][1]
                total == before.total_filled + o_fill[t]
                expected == IF o_op[t] = "handle_cancel" THEN "Cancelled"
                            ELSE IF total < before.order.size THEN "PartialFill"
                            ELSE "Filled"
            IN /\ o_op[t] \in {"handle_trade", "handle_cancel"}
               /\ Len(o_calls[t]) = callbacks
               /\ \A i \in 1..Len(o_calls[t]) :
                    o_calls[t][i].callback = i /\ o_calls[t][i].event = expected
               /\ (o_id[t] \in DOMAIN tracked_orders) <=> (expected = "PartialFill")

\* C10 witness: with two callbacks registered, a handle_trade that completed an
\* order which already had a fill has returned; both callbacks got Filled and
\* the order is gone
C10_FilledAndUntracked ==
    /\ o_pc[1] = "idle" /\ o_op[1] = "handle_trade" /\ o_found[1] # Nothing
    /\ o_found[1][1].order.status = "PartiallyFilled"
    /\ callbacks = 2
    /\ Len(o_calls[1]) = 2
    /\ o_calls[1][2].event = "Filled"
    /\ o_id[1] \notin DOMAIN tracked_orders

\* C11: handle_trade and handle_cancel called on an id that is not tracked
\* return at once: no callback is invoked and the tracked set stays as it was.
C11_UntrackedIsNoOp ==
    [][\A t \in Threads :
         (/\ o_pc[t] = "idle"
          /\ o_op'[t] \in {"handle_trade", "handle_cancel"}
          /\ <<o_op[t], o_id[t], o_fill[t], o_found[t], o_calls[t]>>
               # <<o_op'[t], o_id'[t], o_fill'[t], o_found'[t], o_calls'[t]>>
          /\ o_id'[t] \notin DOMAIN tracked_orders)
         => (/\ tracked_orders' = tracked_orders
             /\ o_pc'[t] = "idle"
             /\ o_calls'[t] = <<>>)]_vars

\* C11 witness: with callbacks registered and another order tracked, a
\* handle_cancel on an untracked id has returned without invoking anything
C11_CancelOfUntracked ==
    /\ o_pc[1] = "idle" /\ o_op[1] = "handle_cancel" /\ o_found[1] = Nothing
    /\ callbacks = 2
    /\ o_calls[1] = <<>>
    /\ o_id[1] \notin DOMAIN tracked_orders
    /\ DOMAIN tracked_orders # {}

\* C12: track_order for an id that is already tracked changes nothing: the
\* entry (total_filled and stored order) and the tracked set stay as they
\* were, whatever order is passed.
C12_TrackIsIdempotent ==
    [][\A t \in Threads :
         (/\ o_pc[t] = "idle"
          /\ o_op'[t] = "track_order"
          /\ o_pc'[t] = "idle"
          /\ o_id'[t] \in DOMAIN tracked_orders)
         => tracked_orders' = tracked_orders]_vars

\* C12 witness: track_order has returned for an id whose entry already holds a
\* partial fill
C12_TrackOfTracked ==
    /\ o_pc[1] = "idle" /\ o_op[1] = "track_order"
    /\ o_id[1] \in DOMAIN tracked_orders
    /\ tracked_orders[o_id[1]].order.status = "PartiallyFilled"
    /\ tracked_orders[o_id[1]].total_filled = 2

\* C14: the callbacks a call has invoked are the registered ones in
\* registration order, all with the same event, order snapshot and fill size;
\* the fill size is that of the trade for PartialFill / Filled and 0 for
\* Cancelled; and all of them have run when the call returns.
C14_CallbacksInOrder ==
    \A t \in Threads :
        /\ \A i \in 1..Len(o_calls[t]) :
            /\ o_calls[t][i].callback = i
            /\ o_calls[t][i].event = o_calls[t][1].event
            /\ o_calls[t][i].order = o_calls[t][1].order
            /\ o_calls[t][i].fill_size =
                 (IF o_calls[t][i].event = "Cancelled" THEN 0 ELSE o_fill[t])
        /\ o_calls[t] # <<>> => Len(o_calls[t]) = callbacks
        /\ (o_pc[t] = "idle" /\ o_found[t] # Nothing) => Len(o_calls[t]) = callbacks

\* C14 witness: handle_cancel has returned after both registered callbacks got
\* Cancelled with fill size 0
C14_BothCallbacksCancelled ==
    /\ o_pc[1] = "idle" /\ o_op[1] = "handle_cancel"
    /\ callbacks = 2
    /\ Len(o_calls[1]) = 2
    /\ o_calls[1][2].callback = 2
    /\ o_calls[1][2].event = "Cancelled"
    /\ o_calls[1][2].fill_size = 0

\* C13: no call made by a callback (or by the thread itself) ever waits for a
\* tracker lock that cannot be granted: the tracker holds none of its locks
\* while callbacks run, so a callback may call any public operation.
C13_ReentryNeverBlocks == ~Blocked

\* C15: on a limiter of rate R > 0, two consecutive wait() calls return at
\* least 1/R apart, however long the limiter was idle before, so the first and
\* the last of N consecutive calls return at least (N-1)/R apart.
C15_PacedCompletions ==
    rl_rate > 0 =>
        /\ \A i \in 1..(Len(rl_done) - 1) :
            (rl_done[i + 1] - rl_done[i]) * rl_rate >= TicksPerSecond
        /\ Len(rl_done) >= 1 =>
            (rl_done[Len(rl_done)] - rl_done[1]) * rl_rate
                >= (Len(rl_done) - 1) * TicksPerSecond

\* C15 witness: a limiter of rate 2 sat idle for more than its interval after
\* the first call, and three calls have returned
C15_ThreeCallsAfterIdle ==
    /\ rl_rate = 2 /\ rl_pc = "idle"
    /\ Len(rl_done) = 3
    /\ rl_done[2] - rl_done[1] > 2 * min_interval
    /\ rl_done[3] - rl_done[2] = min_interval

\* C16: a wait() that has returned slept for min_interval less the time since
\* the previous call returned when that is positive, and did not sleep
\* otherwise: not on the first call after construction, not when the interval
\* had elapsed, not with rate 0; and last_request is the time it returned at.
C16_SleepsTheRemainder ==
    (rl_pc = "idle" /\ rl_done # <<>>) =>
        LET n == Len(rl_done)
            since == IF n = 1 THEN min_interval ELSE rl_elapsed
        IN /\ rl_elapsed >= 0
           /\ n > 1 => rl_elapsed <= rl_done[n] - rl_done[n - 1]
           /\ rl_sleep = (IF since < min_interval THEN min_interval - since ELSE 0)
           /\ (n = 1 \/ rl_rate = 0) => rl_sleep = 0
           /\ last_request = rl_done[n]

\* C16 witness: the second call came one tick after the first on a limiter of
\* interval 4 and slept the 3 ticks that remained
C16_SleptThreeOfFour ==
    /\ rl_pc = "idle" /\ min_interval = 4
    /\ Len(rl_done) = 2
    /\ rl_elapsed = 1
    /\ rl_sleep = 3

\* helpers of C17 and C18: the outcomes of the invocations of f, in order
RbOutcomes == SelectSeq(rb_log, LAMBDA e : e.kind = "f")

\* C17: with max_attempts >= 1 the call returns after min(k, max_attempts)
\* invocations of f, k the index of the first success: every invocation but
\* the last failed; the result is Ok of the last invocation when it succeeded
\* and otherwise max_attempts invocations were made and the result is the
\* error of the last one.
C17_InvocationsAndResult ==
    /\ (rb_max_attempts >= 1) => rb_pc # "panicked"
    /\ (rb_pc = "done") =>
        LET n == Len(RbOutcomes) IN
          /\ n >= 1 /\ n <= rb_max_attempts
          /\ \A i \in 1..(n - 1) : ~RbOutcomes[i].ok
          /\ RbOutcomes[n].ok => rb_result = Some(Ok(n))
          /\ ~RbOutcomes[n].ok => (n = rb_max_attempts /\ rb_result = Some(Err(n)))

\* C17 witness: a call with max_attempts = 3 made three invocations and
\* returned the error of the third
C17_ThirdErrorReturned ==
    /\ rb_pc = "done" /\ rb_max_attempts = 3
    /\ Len(RbOutcomes) = 3
    /\ rb_result = Some(Err(3))

\* C18: invocations and sleeps alternate, beginning with an invocation, the
\* returned call ends with an invocation, and the i-th sleep lasts
\* initial_delay * 2^(i-1).
C18_SleepsBetweenInvocations ==
    /\ \A i \in 1..Len(rb_log) :
        IF i % 2 = 1
          THEN rb_log[i].kind = "f"
          ELSE /\ rb_log[i].kind = "sleep"
               /\ rb_log[i].d = rb_initial_delay * Pow(2, (i \div 2) - 1)
    /\ (rb_pc = "done") => rb_log[Len(rb_log)].kind = "f"
    /\ (rb_pc = "call") => (rb_log = <<>> \/ rb_log[Len(rb_log)].kind = "sleep")

\* C18 witness: a call with initial_delay = 3 slept 3, 6 and 12 ticks and
\* returned after its fourth invocation
C18_SleptThreeSixTwelve ==
    /\ rb_pc = "done" /\ rb_initial_delay = 3
    /\ Len(rb_log) = 7
    /\ rb_log[2].d = 3 /\ rb_log[4].d = 6 /\ rb_log[6].d = 12

\* helpers of C19 and C20: m * 10^6 >= x * y and m * 10^6 <= x * y
GeqProduct(m, x, y) ==
    m > WideQuot(x, y) \/ (m = WideQuot(x, y) /\ WideRem(x, y) = 0)
LeqProduct(m, x, y) == m <= WideQuot(x, y)

\* C19: the Limitless builder aligns the scaled size down to a multiple of
\* tickStep = priceScale / priceTick; on Buy takerAmount is shares and
\* makerAmount is the least integer not below shares * priceInt / priceScale
\* (collateralScale = sharesScale); on Sell makerAmount is shares and
\* takerAmount the greatest integer not above that quotient.
C19_LimitlessAmounts ==
    (am_builder = "limitless") =>
        /\ shares_scale = price_scale /\ collateral_scale = shares_scale
        /\ shares_step * price_tick = price_scale
        /\ am_shares % shares_step = 0
        /\ am_shares <= am_scaled /\ am_scaled < am_shares + shares_step
        /\ (am_side = "Buy") =>
            /\ am_taker = am_shares
            /\ GeqProduct(am_maker, am_shares, am_price_int)
            /\ am_maker > 0 => ~GeqProduct(am_maker - 1, am_shares, am_price_int)
        /\ (am_side = "Sell") =>
            /\ am_maker = am_shares
            /\ LeqProduct(am_taker, am_shares, am_price_int)
            /\ ~LeqProduct(am_taker + 1, am_shares, am_price_int)

\* C19 witness: a Limitless Buy of 0.0025 at 0.333333 is for 2000 shares (the
\* size aligned down) against 667 of collateral (666.666 rounded up)
C19_BuyAlignedAndRoundedUp ==
    /\ am_builder = "limitless" /\ am_side = "Buy"
    /\ am_size = 2500 /\ am_price = 333333
    /\ am_shares = 2000 /\ am_taker = 2000
    /\ am_maker = 667

\* helpers of C20, for amounts in wei: the sign of m * 10^18 - s * p, where the
\* e12 and e6 parts of m are the exact product of the e12 parts of s and p
WeiExcess(m, s, p) == m.dev * 1000000 - (s.e12 * p.dev + s.dev * p.e12)
WeiGeqProduct(m, s, p) ==
    WeiExcess(m, s, p) > 0 \/ (WeiExcess(m, s, p) = 0 /\ s.dev * p.dev <= 0)
WeiLeqProduct(m, s, p) ==
    WeiExcess(m, s, p) < 0 \/ (WeiExcess(m, s, p) = 0 /\ s.dev * p.dev >= 0)

\* C20: rounding never favours the order placer, whichever builder built
\* the order: on Buy makerAmount * priceScale >= takerAmount * priceInt, on
\* Sell takerAmount * priceScale <= makerAmount * priceInt.
C20_RoundingNeverFavoursPlacer ==
    /\ (am_builder \in {"limitless", "polymarket"}) =>
        /\ (am_side = "Buy") => GeqProduct(am_maker, am_taker, am_price_int)
        /\ (am_side = "Sell") => LeqProduct(am_taker, am_maker, am_price_int)
    /\ (am_builder = "predictfun") =>
        /\ (am_side = "Buy") => WeiGeqProduct(am_maker, am_taker, am_price_int)
        /\ (am_side = "Sell") => WeiLeqProduct(am_taker, am_maker, am_price_int)

\* C21: a call whose price is outside (0,1) or whose size is <= 0 fails with
\* the invalid-input error, builds no signed order and submits nothing, at the
\* signing entry point and at create_order of every venue.
C21_InvalidInputRejected ==
    (co_venue # "none" /\ (co_price <= 0 \/ co_price >= 1000000 \/ co_size <= 0)) =>
        /\ co_result = "InvalidOrder"
        /\ co_signed = Nothing
        /\ ~co_posted

\* C22: any two signed orders built by the same client carry different salts,
\* also when both were built within the same millisecond.
C22_SaltsDiffer ==
    \A v \in Venues : \A i, j \in 1..Len(sl_salts[v]) :
        i # j => sl_salts[v][i] # sl_salts[v][j]

C24_ControlMessageSent ==
    [][/\ (c_pc = "sub_send" /\ c_pc' = "idle" /\ state = "Connected" /\ ChannelOpen)
            => c_arg \in outbox'
       /\ (c_pc = "unsub_books" /\ c_pc' = "idle" /\ state = "Connected" /\ ChannelOpen)
            => c_arg \notin outbox'
      ]_vars

C26_FanOutIsolated ==
    [][/\ ~fo_waited'
       /\ \A a \in Ids :
            fo_produced'[a] # fo_produced[a] =>
                /\ UNCHANGED <<subscriptions, orderbook_senders, outbox>>
                /\ \A r \in Receivers :
                     (fo_rx[r].st = "live" /\ fo_rx[r].asset = a) =>
                        LET ch == fo_chan'[a][1] IN
                          /\ ch.buf # <<>>
                          /\ ch.buf[Len(ch.buf)] =
                               [n |-> Len(fo_produced'[a]),
                                book |-> fo_produced'[a][Len(fo_produced'[a])]]
                          /\ fo_rx'[r].next < ch.tail
       /\ \A r \in Receivers :
            (fo_rx[r].st \in {"live", "closed"}
                /\ (fo_rx'[r].st \in {"dropped", "ended"} \/ fo_rx'[r].next # fo_rx[r].next)) =>
                UNCHANGED <<subscriptions, orderbook_senders, outbox, fo_chan>>
      ]_vars

\* C26 witness: a receiver of asset 1 stopped polling and values it never read
\* were overwritten, while another receiver of asset 1 got the latest book and
\* a book for asset 2, which has a sender and no receiver, was broadcast
C26_StalledAndServed ==
    /\ \E r \in Receivers :
        /\ fo_rx[r].st = "live" /\ fo_rx[r].asset = 1
        /\ fo_rx[r].next < Oldest(fo_chan[1][1])
    /\ \E r \in Receivers :
        /\ fo_rx[r].st = "live" /\ fo_rx[r].asset = 1
        /\ fo_yielded[r] # <<>>
        /\ fo_yielded[r][Len(fo_yielded[r])].n = Len(fo_produced[1])
    /\ fo_produced[2] # <<>>
    /\ \A r \in Receivers : fo_rx[r].asset # 2

\* strictly increasing positions
Increasing(s) == \A i \in 1..Len(s) - 1 : s[i].n < s[i + 1].n

AllPositive(levels) == \A i \in 1..Len(levels) : levels[i].price > 0 /\ levels[i].size > 0

\* C28: a snapshot message for an asset replaces that asset's cached book:
\* afterwards the book holds only levels with price > 0 and size > 0, its bids
\* are in descending and its asks in ascending price order, and the books of
\* the other assets are unchanged.
C28_SnapshotReplacesBook ==
    [][\A a \in DOMAIN orderbooks' :
         (a \notin DOMAIN orderbooks \/ orderbooks'[a] # orderbooks[a]) =>
            /\ AllPositive(orderbooks'[a].bids) /\ AllPositive(orderbooks'[a].asks)
            /\ IsSortedDesc(orderbooks'[a].bids)
            /\ IsSortedAsc(orderbooks'[a].asks)
            /\ \A b \in DOMAIN orderbooks \ {a} :
                 b \in DOMAIN orderbooks' /\ orderbooks'[b] = orderbooks[b]
      ]_vars

\* what a best price does to one side: the price of level 0 changes, or a
\* single level appears on an empty side; a side that is not addressed stays
SideAfterBest(old, new, best) ==
    IF best = Nothing THEN new = old
    ELSE IF old = <<>>
           THEN Len(new) = 1 /\ new[1].price = best[1]
           ELSE new = [old EXCEPT ![1].price = best[1]]

NoBook == [bids |-> <<>>, asks |-> <<>>]

BestPriceEffect(old, new, m) ==
    LET before == IF m.asset \in DOMAIN old THEN old[m.asset] ELSE NoBook IN
      /\ (m.bid # Nothing \/ m.ask # Nothing) => m.asset \in DOMAIN new
      /\ m.asset \in DOMAIN new =>
            /\ SideAfterBest(before.bids, new[m.asset].bids, m.bid)
            /\ SideAfterBest(before.asks, new[m.asset].asks, m.ask)
      /\ \A b \in DOMAIN old \ {m.asset} : b \in DOMAIN new /\ new[b] = old[b]

\* the best prices of a message that the handler takes: those that parse and
\* are > 0
Taken(m) ==
    [m EXCEPT !.bid = IF m.bid # Nothing /\ m.bid[1] > 0 THEN m.bid ELSE Nothing,
              !.ask = IF m.ask # Nothing /\ m.ask[1] > 0 THEN m.ask ELSE Nothing]

\* C29: a best-price message for an asset changes only the index-0 entry of
\* the addressed side: the price of level 0 if the side has levels, a new
\* single level if it has none (also when no book is cached yet); deeper
\* levels, sizes and the other assets' books stay as they were.
C29_BestPriceTouchesTopOnly ==
    [][bp_in' # bp_in =>
         IF bp_in'.venue = "polymarket"
           THEN BestPriceEffect(orderbooks, orderbooks', Taken(bp_in'))
           ELSE BestPriceEffect(l_orderbooks, l_orderbooks', Taken(bp_in'))
      ]_vars

\* C30: every successful connect() and every successful reconnect sets the
\* attempt counter to zero; the attempt number a task takes when it enters the
\* reconnect path after its session was lost is therefore 1, whatever failed
\* before; and between resets the counter only grows, by exactly one at a
\* time and by one for each failed reconnect attempt.
C30_BackoffRestarts ==
    [][/\ (c_pc = "conn_reset" /\ c_pc' # c_pc) => reconnect_attempts' = 0
       /\ \A t \in Tasks :
            (t_pc[t] = "r_reset" /\ t_pc'[t] # "r_reset") => reconnect_attempts' = 0
       /\ \A t \in Tasks :
            (t_pc[t] \in {"incr", "r_incr"} /\ t_pc'[t] = "loop") => t_attempt'[t] = 1
       /\ \A t \in Tasks :
            (t_pc[t] = "attempt" /\ t_pc'[t] = "loop") =>
                reconnect_attempts' = reconnect_attempts + 1
       /\ reconnect_attempts' # reconnect_attempts =>
            reconnect_attempts' \in {0, reconnect_attempts + 1}
      ]_vars

\* the assets that have a fan-out channel
Channels == {a \in Ids : fo_chan[a] # Nothing}

\* C31: a step of the connection (a lost session, a reconnect attempt that
\* fails or succeeds, disconnect()) or of the reader (an inbound message)
\* leaves the subscribed ids, the senders, the channels and every stream's
\* attachment unchanged; and a book broadcast on a reconnected session is the
\* newest value retained for every stream attached to its asset.
C31_RegistrySurvivesReconnect ==
    [][/\ (t_pc' # t_pc \/ state' # state \/ c_pc' # c_pc \/ write_tx' # write_tx
              \/ reconnect_attempts' # reconnect_attempts
              \/ fo_produced' # fo_produced \/ p_out' # p_out) =>
            /\ UNCHANGED <<subscriptions, orderbook_senders>>
            /\ Channels' = Channels
            /\ \A r \in Receivers :
                 fo_rx'[r].st = fo_rx[r].st /\ fo_rx'[r].asset = fo_rx[r].asset
       /\ \A a \in Ids :
            fo_produced'[a] # fo_produced[a] =>
                \A r \in Receivers :
                    (fo_rx[r].st = "live" /\ fo_rx[r].asset = a) =>
                        LET ch == fo_chan'[a][1] IN
                          /\ ch.buf # <<>>
                          /\ ch.buf[Len(ch.buf)].n = Len(fo_produced'[a])
                          /\ fo_rx'[r].next < ch.tail
      ]_vars

\* C31 witness: on a session established by the reconnect loop, after one
\* failed reconnect attempt, the stream opened on the first session is still
\* attached and has yielded a book broadcast on the new session
C31_StreamYieldsAfterReconnect ==
    /\ \E t \in Tasks : t_pc[t] = "r_session" /\ t_fails[t] >= 1
    /\ fo_rx[1].st = "live"
    /\ fo_yielded[1] # <<>>
    /\ subscriptions = {1} /\ orderbook_senders = {1}

\* the texts the reader skips: not JSON of the message shape, an event type
\* that is neither "book" nor "price_change", a book without asset id, a price
\* change without changes
Malformed(text) ==
    \/ ~text.json
    \/ text.msg.event_type \notin {Some("book"), Some("price_change")}
    \/ text.msg.event_type = Some("book") /\ text.msg.asset_id = Nothing
    \/ text.msg.event_type = Some("price_change") /\ text.msg.price_changes = Nothing

\* C32: a malformed or unrecognised text changes no cached book and
\* broadcasts nothing; no text changes the connection state or ends the read
\* loop; a well-formed text is processed whatever came before it: a book
\* message caches the book of its asset and broadcasts it, a price change
\* updates the best bid of the cached book.
C32_MalformedSkipped ==
    [][pm_log' # pm_log =>
         LET text == pm_log'[Len(pm_log')]
             msg == text.msg
         IN /\ UNCHANGED wsVars
            /\ Malformed(text) => (orderbooks' = orderbooks /\ p_out' = <<>>)
            /\ (~Malformed(text) /\ msg.event_type = Some("book")) =>
                  /\ 1 \in DOMAIN orderbooks'
                  /\ orderbooks'[1].bids =
                        (IF msg.bids = Nothing THEN <<>> ELSE <<PriceLevel(340, 2)>>)
                  /\ p_out' = <<[asset_id |-> 1, book |-> orderbooks'[1]]>>
            /\ (~Malformed(text) /\ msg.event_type = Some("price_change")
                    /\ 1 \in DOMAIN orderbooks) =>
                  /\ orderbooks'[1].bids[1].price = 660
                  /\ p_out' = <<[asset_id |-> 1, book |-> orderbooks'[1]]>>
      ]_vars

\* C32 witness: the reader skipped a text that is not JSON and then cached the
\* book of the following message, in the same session
C32_BookAfterGarbage ==
    /\ Len(pm_log) = 2
    /\ ~pm_log[1].json
    /\ pm_log[2].json /\ pm_log[2].msg.event_type = Some("book")
    /\ 1 \in DOMAIN orderbooks
    /\ p_out # <<>>
    /\ t_pc[1] = "session" /\ state = "Connected"

\* C33: the stored price of a tracked order is the price of its most recent
\* fill (the limit price while it has had none), the order a fill emits
\* carries that price, and a fill leaves id, side, size and created_at of the
\* order and every other tracked order as they were.
C33_PriceOfLatestFill ==
    [][/\ \A id \in DOMAIN tracked_orders' :
            tracked_orders'[id].order.price =
                (IF ft_price'[id] = Nothing THEN 500 ELSE ft_price'[id][1])
       /\ o_calls'[1] # o_calls[1] /\ o_calls'[1] # <<>> =>
            \A i \in 1..Len(o_calls'[1]) :
                o_calls'[1][i].order.price = ft_price[o_id[1]][1]
       /\ ft_price' # ft_price =>
            LET id == o_id'[1]
                old == tracked_orders[id].order
                new == tracked_orders'[id].order
            IN /\ new.id = old.id /\ new.side = old.side /\ new.size = old.size
               /\ new.created_at = old.created_at
               /\ \A b \in DOMAIN tracked_orders \ {id} :
                    b \in DOMAIN tracked_orders' /\ tracked_orders'[b] = tracked_orders[b]
      ]_vars

\* C33 witness: after fills at 400 and then 600 the order is stored, and was
\* emitted, at 600
C33_SecondFillPrice ==
    /\ 1 \in DOMAIN tracked_orders
    /\ tracked_orders[1].total_filled = 2
    /\ tracked_orders[1].order.price = 600
    /\ tracked_orders[1].order.side = "Sell"
    /\ ft_price[1] = Some(600)
    /\ o_pc[1] = "idle" /\ o_calls[1] # <<>>
    /\ o_calls[1][1].order.price = 600 /\ o_calls[1][1].event = "PartialFill"

\* the mathematical shares * price_int * collateral_scale / (shares_scale *
\* price_scale) of aligned shares, rounded down or up, without any width
ExactShares(scaled) == Mul(DivSmall(scaled, shares_step), ToBytes(shares_step, 2))
ExactNumerator(scaled, p) == Mul(Mul(ExactShares(scaled), ToBytes(p, 4)), ToBytes(1000000, 4))
ExactDown(scaled, p) == DivDenominator(ExactNumerator(scaled, p))
ExactUp(scaled, p) ==
    DivDenominator(Add(ExactNumerator(scaled, p), Pred(Mul(ToBytes(1000000, 4), ToBytes(1000000, 4)))))

\* C34: for every price_int of a price in (0,1) and every scaled share count
\* that fits u64, no operation of the amount computation exceeds its width
\* (the product fits u128) and makerAmount and takerAmount, narrowed to u64,
\* are the mathematical values.
C34_AmountsFitTheirWidths ==
    wa_pc = "returned" =>
        /\ ~wa_overflow
        /\ Strip(ExactNumerator(wa_scaled, wa_price_int)) =
              Strip(u128_mul(u128_mul(Low(ExactShares(wa_scaled), U128Bytes),
                                      ToBytes(wa_price_int, U128Bytes)).v, WideScale).v)
        /\ wa_side = "Buy" =>
              /\ Strip(wa_maker) = Strip(ExactUp(wa_scaled, wa_price_int))
              /\ Strip(wa_taker) = Strip(ExactShares(wa_scaled))
        /\ wa_side = "Sell" =>
              /\ Strip(wa_maker) = Strip(ExactShares(wa_scaled))
              /\ Strip(wa_taker) = Strip(ExactDown(wa_scaled, wa_price_int))

\* C34 witness: a buy of the largest share count at 0.999999, whose collateral
\* needs all 64 bits
C34_LargestBuy ==
    /\ wa_pc = "returned"
    /\ wa_side = "Buy"
    /\ wa_scaled = <<0, 248, 255, 255, 255, 255, 255, 255>>
    /\ wa_price_int = 999999
    /\ wa_maker[U64Bytes] = 255
    /\ ~wa_overflow

\* C35: between calls, a cached book and a fan-out channel exist only for
\* subscribed ids: none for an id that was unsubscribed and not subscribed
\* again, none for an id that was never subscribed, whatever the venue sends.
C35_BooksOnlyForSubscribed ==
    c_pc = "idle" =>
        /\ orderbook_senders \subseteq subscriptions
        /\ DOMAIN orderbooks \subseteq subscriptions

\* the latest call of thread t emitted Filled or Cancelled for order id
EmittedTerminal(t, id) ==
    \E i \in 1..Len(o_calls[t]) :
        o_calls[t][i].order.id = id /\ o_calls[t][i].event \in {"Filled", "Cancelled"}

\* C36: with two threads calling handle_trade and handle_cancel on the same
\* tracked order, once a thread has emitted Filled or Cancelled for the order
\* no other thread emits PartialFill, Filled or Cancelled for it.
C36_OneTerminalEvent ==
    [][\A t \in Threads :
         (o_calls'[t] # o_calls[t] /\ o_calls'[t] # <<>>) =>
             \A u \in Threads \ {t} : ~EmittedTerminal(u, o_calls'[t][1].order.id)
      ]_vars

\* C37: a heartbeat timer runs in every session of a connection, the one
\* opened by connect() and every one established by the reconnect loop: the
\* select! the task waits in has a ping_future.
C37_HeartbeatInEverySession ==
    \A t \in Tasks : t_pc[t] \in {"session", "r_session"} => ping_future(t)

\* C38: the state is Connecting only while a connect() call is in progress:
\* a connect() that returned an error because the transport could not be
\* opened has left the state Disconnected (or Closed).
C38_ConnectingIsTransient ==
    c_pc \notin {"conn_attempt", "conn_spawn", "conn_set"} => state # "Connecting"

\* C39: retry_with_backoff returns a Result for every max_attempts, 0
\* included: it never panics, and when it has returned the result is Ok or
\* the error of an invocation of the operation.
C39_AlwaysReturnsResult ==
    /\ rb_pc # "panicked"
    /\ rb_pc = "done" => (rb_result # Nothing /\ Len(RbOutcomes) >= 1)

\* C40: tasks sharing one limiter behind a lock held for the whole wait() are
\* paced jointly: any two requests that passed rate_limit() left it at least
\* min_interval apart, whichever tasks made them, and every task that called
\* rate_limit() leaves it.
C40_JointlyPaced ==
    /\ [](\A i \in 1..(Len(rl_done) - 1) : rl_done[i + 1] - rl_done[i] >= min_interval)
    /\ \A t \in Callers : (sh_pc[t] = "queued") ~> (sh_pc[t] = "idle")

\* C40 witness: on a limiter of interval 4 one task sleeps holding the lock
\* while the other waits for the lock, after a first request passed
C40_OneSleepsOneQueued ==
    /\ min_interval = 4
    /\ Len(rl_done) = 1
    /\ \E t, u \in Callers : sh_pc[t] = "sleeping" /\ sh_pc[u] = "queued"

====
